---- MODULE Spec2Model ----
(***************************************************************************)
(* html2json: the spec-driven extraction engine (src/src/dom.rs,           *)
(* src/src/pipe.rs, src/src/spec.rs) as a state machine.                   *)
(*                                                                         *)
(* JSON values (serde_json::Value) are tagged records; a JSON object is a  *)
(* function from its keys to values (serde_json::Map: unique keys), a JSON *)
(* array a sequence, and a string a sequence of one-character strings so   *)
(* that trim, case mapping, substr and regex matching are computed.        *)
(***************************************************************************)
EXTENDS Integers, Sequences, FiniteSets, TLC

VARIABLES
    pc,        \* position of the running operation
    fields,    \* Vec<(String, Value, bool)> handed to filter_optional_fields
    result,    \* the Map filter_optional_fields returned
    result2,   \* the Map of a second application to its own output
    cleanIn,   \* argument of recursively_clean_object
    cleaned,   \* recursively_clean_object(cleanIn)
    cleaned2,  \* recursively_clean_object(cleaned)
    doc,       \* the parsed document (Dom.html)
    target,    \* Option<Node>: the selected node, or the scope of a field
    pipeList,  \* the pipe list of the field
    current,   \* Result<Value>: the accumulator of try_fold, then the result
    hist,      \* the accumulator after the source pipe and after each transform
    reordered, \* the pipe list reordered, and the result of running it
    alternatives, \* the alternatives (selector, pipes) of a FallbackSelector
    tried,     \* the result of each alternative evaluated so far
    extractSpec, \* the Spec handed to Dom::extract
    output,    \* Result<Value>: what Dom::extract returned
    selectorRef, \* the SelectorRef handed to select_node or resolve_scope
    selected,  \* Result<Option<Node>>: the node it resolved to
    specJson,  \* the JSON value handed to the spec parser
    parseOut,  \* what the parser did with it: Ok(AST), Err(..) or a panic
    cache,     \* REGEX_CACHE: the patterns with a compiled entry
    lock,      \* the RwLock of REGEX_CACHE: the threads holding a read or write guard
    threads    \* each thread calling get_cached_regex: position, pattern, result

shapeVars == <<fields, result, result2, cleanIn, cleaned, cleaned2>>
pipeVars == <<pipeList, current, hist, reordered>>
fallbackVars == <<alternatives, tried>>
domVars == <<doc, target>>
extractVars == <<extractSpec, output>>
selectVars == <<selectorRef, selected>>
parseVars == <<specJson, parseOut>>
lockVars == <<lock, threads>>

vars == <<pc, shapeVars, domVars, pipeVars, fallbackVars, extractVars, selectVars, parseVars,
          lockVars, cache>>

(***************************************************************************)
(* serde_json::Value                                                       *)
(***************************************************************************)
Null == [t |-> "null"]
JStr(s) == [t |-> "str", s |-> s]
JNum(n) == [t |-> "num", n |-> n]
JBool(b) == [t |-> "bool", b |-> b]
JObj(m) == [t |-> "obj", m |-> m]
JArr(a) == [t |-> "arr", a |-> a]

is_null(v) == v.t = "null"

EmptyMap == [k \in {} |-> Null]

\* serde_json::Map::insert: a later insert of the same key replaces the value
MapInsert(m, k, v) == [x \in (DOMAIN m) \cup {k} |-> IF x = k THEN v ELSE m[x]]

\* a value standing for "not computed yet" in the state
None == [t |-> "none"]

(***************************************************************************)
(* JSON Shaping: Dom::recursively_clean_object, Dom::filter_optional_fields*)
(***************************************************************************)
RECURSIVE recursively_clean_object(_)
RECURSIVE CleanEach(_)

\* arr.into_iter().map(Self::recursively_clean_object)
CleanEach(a) ==
    IF a = <<>> THEN <<>>
    ELSE <<recursively_clean_object(Head(a))>> \o CleanEach(Tail(a))

\* the null test made on the member as it was, not on the cleaned member
recursively_clean_object_StaleNullTest(value) ==
    CASE value.t = "obj" ->
            LET cv == [k \in DOMAIN value.m |-> recursively_clean_object(value.m[k])]
                keep == {k \in DOMAIN cv : ~is_null(value.m[k])}
                cleanedMap == [k \in keep |-> cv[k]]
            IN  IF keep = {} THEN Null ELSE JObj(cleanedMap)
      [] value.t = "arr" ->
            JArr(SelectSeq(CleanEach(value.a), LAMBDA v : ~is_null(v)))
      [] OTHER -> value

recursively_clean_object(value) ==
    CASE value.t = "obj" ->
            LET cv == [k \in DOMAIN value.m |-> recursively_clean_object(value.m[k])]
                keep == {k \in DOMAIN cv : ~is_null(cv[k])}
                cleanedMap == [k \in keep |-> cv[k]]
            IN  IF keep = {} THEN Null ELSE JObj(cleanedMap)
      [] value.t = "arr" ->
            JArr(SelectSeq(CleanEach(value.a), LAMBDA v : ~is_null(v)))
      [] OTHER -> value

\* the optional flag ignored for null values
FilterStep_KeepOptionalNull(acc, f) ==
    LET key == f[1]
        value == f[2]
        optional == f[3]
    IN  CASE is_null(value) -> MapInsert(acc, key, value)
          [] value.t = "obj" ->
                LET c == recursively_clean_object(value)
                IN  IF ~is_null(c) THEN MapInsert(acc, key, c) ELSE acc
          [] value.t = "arr" ->
                LET c == CleanEach(value.a)
                IN  IF c # <<>> \/ ~optional THEN MapInsert(acc, key, JArr(c)) ELSE acc
          [] OTHER -> MapInsert(acc, key, value)

\* an emptied object treated like an emptied array: dropped only if optional
FilterStep_EmptyObjectIfOptional(acc, f) ==
    LET key == f[1]
        value == f[2]
        optional == f[3]
    IN  CASE is_null(value) /\ optional -> acc
          [] is_null(value) -> MapInsert(acc, key, value)
          [] value.t = "obj" ->
                LET c == recursively_clean_object(value)
                IN  IF ~is_null(c) \/ ~optional THEN MapInsert(acc, key, c) ELSE acc
          [] value.t = "arr" ->
                LET c == CleanEach(value.a)
                IN  IF c # <<>> \/ ~optional THEN MapInsert(acc, key, JArr(c)) ELSE acc
          [] OTHER -> MapInsert(acc, key, value)

\* an emptied array treated like an emptied object: dropped whatever the flag
FilterStep_EmptyArrayAlways(acc, f) ==
    LET key == f[1]
        value == f[2]
        optional == f[3]
    IN  CASE is_null(value) /\ optional -> acc
          [] is_null(value) -> MapInsert(acc, key, value)
          [] value.t = "obj" ->
                LET c == recursively_clean_object(value)
                IN  IF ~is_null(c) THEN MapInsert(acc, key, c) ELSE acc
          [] value.t = "arr" ->
                LET c == CleanEach(value.a)
                IN  IF c # <<>> THEN MapInsert(acc, key, JArr(c)) ELSE acc
          [] OTHER -> MapInsert(acc, key, value)

\* every null value dropped, whatever the flag
FilterStep_DropEveryNull(acc, f) ==
    LET key == f[1]
        value == f[2]
        optional == f[3]
    IN  CASE is_null(value) -> acc
          [] value.t = "obj" ->
                LET c == recursively_clean_object(value)
                IN  IF ~is_null(c) THEN MapInsert(acc, key, c) ELSE acc
          [] value.t = "arr" ->
                LET c == CleanEach(value.a)
                IN  IF c # <<>> \/ ~optional THEN MapInsert(acc, key, JArr(c)) ELSE acc
          [] OTHER -> MapInsert(acc, key, value)

\* one iteration of the loop of filter_optional_fields over (key, value, optional)
FilterStep(acc, f) ==
    LET key == f[1]
        value == f[2]
        optional == f[3]
    IN  CASE is_null(value) /\ optional -> acc
          [] is_null(value) -> MapInsert(acc, key, value)
          [] value.t = "obj" ->
                LET c == recursively_clean_object(value)
                IN  IF ~is_null(c) THEN MapInsert(acc, key, c) ELSE acc
          [] value.t = "arr" ->
                LET c == CleanEach(value.a)
                IN  IF c # <<>> \/ ~optional THEN MapInsert(acc, key, JArr(c)) ELSE acc
          [] OTHER -> MapInsert(acc, key, value)

RECURSIVE FilterFrom(_, _)
FilterFrom(acc, fs) ==
    IF fs = <<>> THEN acc ELSE FilterFrom(FilterStep(acc, Head(fs)), Tail(fs))

filter_optional_fields(fs) == FilterFrom(EmptyMap, fs)

(***************************************************************************)
(* Result<T, anyhow::Error> and Option<T>                                  *)
(***************************************************************************)
Ok(v) == [ok |-> TRUE, v |-> v]
Err(e) == [ok |-> FALSE, e |-> e]
NoneOpt == <<>>
Some(x) == <<x>>

\* the least member of a non-empty set of numbers
Least(S) == CHOOSE x \in S : \A y \in S : x <= y

(***************************************************************************)
(* Strings: str::trim, to_lowercase, to_uppercase, chars().take().skip(),  *)
(* str::parse::<f64>, str::parse::<i64>                                    *)
(***************************************************************************)
IsSpace(c) == c = " "
Digits == {"0", "2", "5"}

RECURSIVE TrimStart(_)
TrimStart(s) == IF s # <<>> /\ IsSpace(Head(s)) THEN TrimStart(Tail(s)) ELSE s

RECURSIVE TrimEnd(_)
TrimEnd(s) ==
    IF s # <<>> /\ IsSpace(s[Len(s)]) THEN TrimEnd(SubSeq(s, 1, Len(s) - 1)) ELSE s

trim(s) == TrimEnd(TrimStart(s))

UpperChar(c) == CASE c = "h" -> "H" [] c = "i" -> "I" [] OTHER -> c
LowerChar(c) == CASE c = "H" -> "h" [] c = "I" -> "i" [] OTHER -> c
to_uppercase(s) == [i \in 1..Len(s) |-> UpperChar(s[i])]
to_lowercase(s) == [i \in 1..Len(s) |-> LowerChar(s[i])]

Min(a, b) == IF a < b THEN a ELSE b

\* s.chars().take(n)
Take(s, n) == SubSeq(s, 1, Min(n, Len(s)))
\* s.chars().skip(n)
Skip(s, n) == SubSeq(s, n + 1, Len(s))

DigitVal(c) == CASE c = "0" -> 0 [] c = "2" -> 2 [] c = "5" -> 5

RECURSIVE ParseNat(_)
ParseNat(s) ==
    IF s = <<>> THEN 0
    ELSE 10 * ParseNat(SubSeq(s, 1, Len(s) - 1)) + DigitVal(s[Len(s)])

\* a decimal m * 10^-e without trailing fractional zeros (equal f64 values
\* have equal representations)
RECURSIVE Normalise(_, _)
Normalise(m, e) ==
    IF e > 0 /\ m % 10 = 0 THEN Normalise(m \div 10, e - 1) ELSE [m |-> m, e |-> e]

\* str::parse::<f64> on the characters of the model: digits with at most one
\* point and at least one digit
ParseF64(s) ==
    LET dots == {i \in 1..Len(s) : s[i] = "."}
        digs == SelectSeq(s, LAMBDA c : c \in Digits)
    IN  IF /\ \A i \in 1..Len(s) : s[i] \in Digits \cup {"."}
           /\ Cardinality(dots) <= 1
           /\ digs # <<>>
        THEN LET frac == IF dots = {} THEN 0 ELSE Len(s) - (CHOOSE i \in dots : TRUE)
                 n == Normalise(ParseNat(digs), frac)
             IN  Some([k |-> "f64", m |-> n.m, e |-> n.e])
        ELSE NoneOpt

\* str::parse::<i64>: digits only
ParseI64(s) ==
    IF s # <<>> /\ \A i \in 1..Len(s) : s[i] \in Digits
    THEN Some([k |-> "i64", m |-> ParseNat(s), e |-> 0])
    ELSE NoneOpt

(***************************************************************************)
(* regex::Regex: a pattern is a sequence of items (a character class with  *)
(* a quantifier: one, plus, opt) of which a contiguous range may be capture*)
(* group 1; adjacent classes are disjoint, so greedy matching is exact.    *)
(* RegexBuilder::build fails on a pattern with ok = FALSE.                 *)
(***************************************************************************)
Item(cs, q) == [cs |-> cs, q |-> q]

\* \$(\d+\.\d+)
PriceRe == [ok |-> TRUE, g |-> <<2, 4>>,
            items |-> <<Item({"$"}, "one"), Item(Digits, "plus"),
                        Item({"."}, "one"), Item(Digits, "plus")>>]
\* \d+
DigitsRe == [ok |-> TRUE, g |-> <<0, 0>>, items |-> <<Item(Digits, "plus")>>]
\* h(2)?
OptRe == [ok |-> TRUE, g |-> <<2, 2>>,
          items |-> <<Item({"h"}, "one"), Item({"2"}, "opt")>>]
\* ( : does not compile
BadRe == [ok |-> FALSE, g |-> <<0, 0>>, items |-> <<>>]

RECURSIVE RunLen(_, _, _)
RunLen(cs, s, i) ==
    IF i <= Len(s) /\ s[i] \in cs THEN 1 + RunLen(cs, s, i + 1) ELSE 0

\* the position after one item with quantifier q whose class matches a run
\* of r characters at position i, or -1 when the item fails
Advance(q, r, i) ==
    CASE q = "one" -> IF r >= 1 THEN i + 1 ELSE -1
      [] q = "plus" -> IF r >= 1 THEN i + r ELSE -1
      [] q = "opt" -> IF r >= 1 THEN i + 1 ELSE i

MatchCons(next, rest) == IF rest = <<-1>> THEN <<-1>> ELSE <<next>> \o rest

\* the positions after each item of items[k..] matched from position i of s,
\* or <<-1>> when some item fails
RECURSIVE MatchFrom(_, _, _, _)
MatchNext(items, k, s, next) ==
    IF next = -1 THEN <<-1>>
    ELSE MatchCons(next, MatchFrom(items, k + 1, s, next))

MatchFrom(items, k, s, i) ==
    IF k > Len(items) THEN <<>>
    ELSE MatchNext(items, k, s, Advance(items[k].q, RunLen(items[k].cs, s, i), i))

\* the position after item k of a match that starts at i
After(i, ends, k) == IF k = 0 THEN i ELSE ends[k]

\* Captures::get(1): None when there is no group, or the group did not take
\* part in the match
Group1(re, s, a, b) ==
    IF a = b /\ re.items[re.g[1]].q = "opt" THEN NoneOpt
    ELSE Some(SubSeq(s, a, b - 1))

CapturesAt(re, s, i, ends) ==
    Some([whole |-> SubSeq(s, i, After(i, ends, Len(re.items)) - 1),
          g1 |-> IF re.g = <<0, 0>> THEN NoneOpt
                 ELSE Group1(re, s, After(i, ends, re.g[1] - 1), After(i, ends, re.g[2]))])

Leftmost(starts) == CHOOSE x \in starts : \A y \in starts : x <= y

CapturesIn(re, s, starts) ==
    IF starts = {} THEN NoneOpt
    ELSE CapturesAt(re, s, Leftmost(starts), MatchFrom(re.items, 1, s, Leftmost(starts)))

\* Regex::captures: the leftmost match, with the span of the whole match
\* (group 0) and of group 1 when it took part in the match
captures(re, s) ==
    CapturesIn(re, s, {i \in 1..(Len(s) + 1) : MatchFrom(re.items, 1, s, i) # <<-1>>})

(***************************************************************************)
(* Pipes: src/src/pipe.rs                                                  *)
(***************************************************************************)
Trim == [c |-> "Trim"]
Lower == [c |-> "Lower"]
Upper == [c |-> "Upper"]
Substr(start, end) == [c |-> "Substr", start |-> start, end |-> end]
ParseAsNumber == [c |-> "ParseAsNumber"]
ParseAsInt == [c |-> "ParseAsInt"]
ParseAsFloat == [c |-> "ParseAsFloat"]
Regex(re) == [c |-> "Regex", re |-> re]
Attr(name) == [c |-> "Attr", name |-> name]
Void == [c |-> "Void"]

\* a pattern that has an entry is not served from it
get_cached_regex_HitFails(pattern, ch) ==
    IF pattern \in ch THEN [r |-> Err("Regex cache lock poisoned"), cache |-> ch]
    ELSE IF ~pattern.ok THEN [r |-> Err("Invalid or unsafe regex"), cache |-> ch]
    ELSE [r |-> Ok(pattern), cache |-> ch \cup {pattern}]

\* get_cached_regex with one caller: the compiled regex, and the cache after
\* the call (a failed compilation inserts nothing)
get_cached_regex(pattern, ch) ==
    IF pattern \in ch THEN [r |-> Ok(pattern), cache |-> ch]
    ELSE IF ~pattern.ok THEN [r |-> Err("Invalid or unsafe regex"), cache |-> ch]
    ELSE [r |-> Ok(pattern), cache |-> ch \cup {pattern}]

as_string(value) ==
    IF value.t = "str" THEN Ok(value.s) ELSE Err("Expected string value")

\* the closures apply_pipe hands to string_transform
Closure(f, s) ==
    CASE f = "trim" -> trim(s)
      [] f = "to_lowercase" -> to_lowercase(s)
      [] f = "to_uppercase" -> to_uppercase(s)

string_transform(value, f) ==
    LET s == as_string(value)
    IN  IF s.ok THEN Ok(JStr(Closure(f, s.v))) ELSE s

\* skip before take: the end counted from start
apply_substring_SkipThenTake(value, start, end) ==
    LET s == as_string(value)
    IN  IF ~s.ok THEN s
        ELSE IF end # NoneOpt THEN Ok(JStr(Take(Skip(s.v, start), end[1])))
        ELSE Ok(JStr(Skip(s.v, start)))

apply_substring(value, start, end) ==
    LET s == as_string(value)
    IN  IF ~s.ok THEN s
        ELSE IF end # NoneOpt THEN Ok(JStr(Skip(Take(s.v, end[1]), start)))
        ELSE Ok(JStr(Skip(s.v, start)))

apply_parse_number(value) ==
    LET s == as_string(value)
    IN  IF ~s.ok THEN s
        ELSE LET n == ParseF64(trim(s.v))
             IN  IF n = NoneOpt THEN Err("Cannot parse as number") ELSE Ok(JNum(n[1]))

apply_parse_int(value) ==
    LET s == as_string(value)
    IN  IF ~s.ok THEN s
        ELSE LET n == ParseI64(trim(s.v))
             IN  IF n = NoneOpt THEN Err("Cannot parse as int") ELSE Ok(JNum(n[1]))

\* the whole match whatever the groups
CapturedValue_WholeMatch(caps) ==
    IF caps = NoneOpt THEN Ok(Null) ELSE Ok(JStr(caps[1].whole))

\* caps.get(1).or(caps.get(0)), or null when nothing matches
CapturedValue(caps) ==
    IF caps = NoneOpt THEN Ok(Null)
    ELSE IF caps[1].g1 # NoneOpt THEN Ok(JStr(caps[1].g1[1]))
    ELSE Ok(JStr(caps[1].whole))

RegexOn(s, got) ==
    IF ~got.r.ok THEN got
    ELSE [r |-> CapturedValue(captures(got.r.v, s)), cache |-> got.cache]

RegexOf(s, pattern, ch) ==
    IF ~s.ok THEN [r |-> s, cache |-> ch]
    ELSE RegexOn(s.v, get_cached_regex(pattern, ch))

apply_regex(value, pattern, ch) == RegexOf(as_string(value), pattern, ch)

\* apply_pipe: the result, and the regex cache after the call
apply_pipe(value, pipe, ch) ==
    CASE pipe.c = "Trim" -> [r |-> string_transform(value, "trim"), cache |-> ch]
      [] pipe.c = "Lower" -> [r |-> string_transform(value, "to_lowercase"), cache |-> ch]
      [] pipe.c = "Upper" -> [r |-> string_transform(value, "to_uppercase"), cache |-> ch]
      [] pipe.c = "Substr" ->
            [r |-> apply_substring(value, pipe.start, pipe.end), cache |-> ch]
      [] pipe.c \in {"ParseAsNumber", "ParseAsFloat"} ->
            [r |-> apply_parse_number(value), cache |-> ch]
      [] pipe.c = "ParseAsInt" -> [r |-> apply_parse_int(value), cache |-> ch]
      [] pipe.c = "Regex" -> apply_regex(value, pipe.re, ch)
      [] pipe.c = "Attr" -> [r |-> Ok(value), cache |-> ch]

\* split_source_and_transforms: at most one leading source pipe (Attr, Void)
\* and the transform pipes after it
split_source_and_transforms(ps) ==
    IF ps # <<>> /\ Head(ps).c \in {"Attr", "Void"}
    THEN [source |-> Some(Head(ps)), transforms |-> Tail(ps)]
    ELSE [source |-> NoneOpt, transforms |-> ps]

(***************************************************************************)
(* The parsed document (scraper::Html): a sequence of nodes in document    *)
(* order; a Node handle is the index of its node (NodeId).  Node 1 is the  *)
(* <html> element Html::parse_fragment puts under the fragment root (0).   *)
(***************************************************************************)
Elem(parent, tag, attrs) == [kind |-> "elem", parent |-> parent, tag |-> tag, attrs |-> attrs]
Text(parent, txt) == [kind |-> "text", parent |-> parent, txt |-> txt]
NoAttrs == [a \in {} |-> <<>>]

IsElem(d, n) == d[n].kind = "elem"

RECURSIVE IsAncestor(_, _, _)
IsAncestor(d, a, n) ==
    IF d[n].parent = 0 THEN FALSE
    ELSE d[n].parent = a \/ IsAncestor(d, a, d[n].parent)

\* el.text().collect::<String>(): the text nodes of the subtree, concatenated
RECURSIVE TextFrom(_, _, _)
TextFrom(d, n, i) ==
    IF i > Len(d) THEN <<>>
    ELSE (IF d[i].kind = "text" /\ IsAncestor(d, n, i) THEN d[i].txt ELSE <<>>)
         \o TextFrom(d, n, i + 1)

VoidTags == {"area", "base", "br", "col", "embed", "hr", "img", "input",
             "link", "meta", "param", "source", "track", "wbr"}

is_void_element(name) == name \in VoidTags

\* the siblings after n, in document order
NextSiblings(d, n) ==
    SelectSeq([i \in 1..Len(d) |-> i], LAMBDA m : m > n /\ d[m].parent = d[n].parent)

get_void_text_from_tree(d, n) ==
    LET sibs == NextSiblings(d, n)
    IN  IF sibs # <<>> /\ d[sibs[1]].kind = "text"
        THEN Some(trim(d[sibs[1]].txt))
        ELSE NoneOpt

\* Node::text
NodeText(d, n) ==
    LET text_content == TextFrom(d, n, n + 1)
    IN  IF text_content = <<>> /\ is_void_element(d[n].tag)
        THEN LET v == get_void_text_from_tree(d, n)
             IN  IF v # NoneOpt THEN v[1] ELSE text_content
        ELSE text_content

\* Node::attr
NodeAttr(d, n, name) ==
    IF name \in DOMAIN d[n].attrs THEN Some(d[n].attrs[name]) ELSE NoneOpt

(***************************************************************************)
(* CSS selectors (scraper::Selector).  A selector string is a sequence of  *)
(* tokens: the characters the engine itself inspects ("$", "+", ">", " ")  *)
(* and simple selectors (a tag name, or "*").  Selector::parse accepts     *)
(* simple selectors joined by the descendant (" ") and child (">")         *)
(* combinators; Select yields the matching descendants in document order.  *)
(***************************************************************************)
Tags == {"a", "b", "br"}
Simple == Tags \cup {"*"}

RECURSIVE CssWellFormed(_)
CssWellFormed(cs) ==
    \/ Len(cs) = 1 /\ cs[1] \in Simple
    \/ /\ Len(cs) >= 3
       /\ cs[Len(cs)] \in Simple
       /\ cs[Len(cs) - 1] \in {" ", ">"}
       /\ CssWellFormed(SubSeq(cs, 1, Len(cs) - 2))

\* Selector::parse: Some(compiled selector) or None (a parse error)
SelectorParse(sel) ==
    LET cs == trim(sel)
    IN  IF cs # <<>> /\ CssWellFormed(cs) THEN Some(cs) ELSE NoneOpt

SimpleMatches(d, n, simple) == IsElem(d, n) /\ (simple = "*" \/ d[n].tag = simple)

RECURSIVE CssMatches(_, _, _)
CssMatches(d, n, cs) ==
    /\ n # 0
    /\ SimpleMatches(d, n, cs[Len(cs)])
    /\ \/ Len(cs) = 1
       \/ LET rest == SubSeq(cs, 1, Len(cs) - 2)
          IN  IF cs[Len(cs) - 1] = ">"
              THEN CssMatches(d, d[n].parent, rest)
              ELSE \E a \in 1..Len(d) : IsAncestor(d, a, n) /\ CssMatches(d, a, rest)

\* Html::select: every element of the tree, in document order
SelectAll(d, cs) ==
    SelectSeq([i \in 1..Len(d) |-> i], LAMBDA n : CssMatches(d, n, cs))

\* ElementRef::select: the descendants of base, in document order
SelectUnder(d, base, cs) ==
    SelectSeq([i \in 1..Len(d) |-> i],
              LAMBDA n : IsAncestor(d, base, n) /\ CssMatches(d, n, cs))

First(seq) == IF seq = <<>> THEN NoneOpt ELSE Some(seq[1])

\* anyhow!("Invalid selector '{}': {}", selector_str, e): the error carries
\* the text that was handed to Selector::parse
InvalidSelector(selector_str) ==
    [ok |-> FALSE, e |-> "Invalid selector", text |-> selector_str]

\* a text that is no selector matches nothing
query_selector_IgnoreInvalid(d, sel) ==
    LET parsed == SelectorParse(sel)
    IN  IF parsed = NoneOpt THEN Ok(NoneOpt)
        ELSE Ok(First(SelectAll(d, parsed[1])))

query_selector(d, sel) ==
    LET parsed == SelectorParse(sel)
    IN  IF parsed = NoneOpt THEN InvalidSelector(sel)
        ELSE Ok(First(SelectAll(d, parsed[1])))

query_selector_all(d, sel) ==
    LET parsed == SelectorParse(sel)
    IN  IF parsed = NoneOpt THEN InvalidSelector(sel)
        ELSE Ok(SelectAll(d, parsed[1]))

query_selector_relative(d, base, sel) ==
    LET parsed == SelectorParse(sel)
    IN  IF parsed = NoneOpt THEN InvalidSelector(sel)
        ELSE Ok(First(SelectUnder(d, base, parsed[1])))

query_selector_all_relative(d, base, sel) ==
    LET parsed == SelectorParse(sel)
    IN  IF parsed = NoneOpt THEN InvalidSelector(sel)
        ELSE Ok(SelectUnder(d, base, parsed[1]))

(***************************************************************************)
(* Dom::select_node, Dom::resolve_scope.  A scope is an Option<Node>.      *)
(***************************************************************************)
SelfRef == <<"$">>

RECURSIVE FirstSiblingMatch(_, _, _)

\* the sibling container itself is returned
FirstSiblingMatch_Container(d, sibs, cs) ==
    IF sibs = <<>> THEN NoneOpt
    ELSE LET m == IF IsElem(d, Head(sibs)) THEN SelectUnder(d, Head(sibs), cs) ELSE <<>>
         IN  IF m # <<>> THEN Some(Head(sibs)) ELSE FirstSiblingMatch(d, Tail(sibs), cs)

\* the first following sibling element with a match among its descendants
FirstSiblingMatch(d, sibs, cs) ==
    IF sibs = <<>> THEN NoneOpt
    ELSE LET m == IF IsElem(d, Head(sibs)) THEN SelectUnder(d, Head(sibs), cs) ELSE <<>>
         IN  IF m # <<>> THEN Some(m[1]) ELSE FirstSiblingMatch(d, Tail(sibs), cs)

\* the direct-child form queries the whole document, scope or not
select_node_DirectChildGlobal(d, selector, scope) ==
    IF selector = SelfRef THEN Ok(scope)
    ELSE IF Len(selector) >= 2 /\ selector[1] = "+" /\ selector[2] = " "
    THEN LET inner == SubSeq(selector, 3, Len(selector))
         IN  IF scope = NoneOpt THEN Err("Next sibling selector requires a scope")
             ELSE IF SelectorParse(inner) = NoneOpt THEN InvalidSelector(inner)
             ELSE Ok(FirstSiblingMatch(d, NextSiblings(d, scope[1]), SelectorParse(inner)[1]))
    ELSE IF selector # <<>> /\ selector[1] = ">"
    THEN query_selector(d, trim(Tail(selector)))
    ELSE IF scope # NoneOpt THEN query_selector_relative(d, scope[1], selector)
         ELSE query_selector(d, selector)

select_node(d, selector, scope) ==
    IF selector = SelfRef THEN Ok(scope)
    ELSE IF Len(selector) >= 2 /\ selector[1] = "+" /\ selector[2] = " "
    THEN LET inner == SubSeq(selector, 3, Len(selector))
         IN  IF scope = NoneOpt THEN Err("Next sibling selector requires a scope")
             ELSE IF SelectorParse(inner) = NoneOpt THEN InvalidSelector(inner)
             ELSE Ok(FirstSiblingMatch(d, NextSiblings(d, scope[1]), SelectorParse(inner)[1]))
    ELSE IF selector # <<>> /\ selector[1] = ">"
    THEN LET effective == trim(Tail(selector))
         IN  IF scope # NoneOpt THEN query_selector_relative(d, scope[1], effective)
             ELSE query_selector(d, effective)
    ELSE IF scope # NoneOpt THEN query_selector_relative(d, scope[1], selector)
         ELSE query_selector(d, selector)

\* the scope selector is resolved in the whole document, base or not
resolve_scope_Global(d, selector, base) ==
    IF selector = NoneOpt THEN Ok(base)
    ELSE IF selector[1] = SelfRef THEN Ok(base)
    ELSE IF selector[1] # <<>> /\ selector[1][1] = ">"
    THEN query_selector(d, trim(Tail(selector[1])))
    ELSE query_selector(d, selector[1])

resolve_scope(d, selector, base) ==
    IF selector = NoneOpt THEN Ok(base)
    ELSE IF selector[1] = SelfRef THEN Ok(base)
    ELSE IF selector[1] # <<>> /\ selector[1][1] = ">"
    THEN LET effective == trim(Tail(selector[1]))
         IN  IF base # NoneOpt THEN query_selector_relative(d, base[1], effective)
             ELSE query_selector(d, effective)
    ELSE IF base # NoneOpt THEN query_selector_relative(d, base[1], selector[1])
         ELSE query_selector(d, selector[1])

(***************************************************************************)
(* Node::html and the helpers of the Void source pipe that read it.  The   *)
(* serialisation is a sequence of tokens: "<", ">", "/", "=", the quote,   *)
(* names, and the characters of texts and attribute values.                *)
(***************************************************************************)
RECURSIVE AttrsHtml(_, _)
AttrsHtml(attrs, names) ==
    IF names = {} THEN <<>>
    ELSE LET a == CHOOSE x \in names : TRUE
         IN  <<" ", a, "=", "\"">> \o attrs[a] \o <<"\"">> \o AttrsHtml(attrs, names \ {a})

RECURSIVE Html(_, _)
RECURSIVE ChildrenHtml(_, _, _)
ChildrenHtml(d, n, i) ==
    IF i > Len(d) THEN <<>>
    ELSE (IF d[i].parent = n THEN Html(d, i) ELSE <<>>) \o ChildrenHtml(d, n, i + 1)

Html(d, n) ==
    IF d[n].kind = "text" THEN d[n].txt
    ELSE <<"<", d[n].tag>> \o AttrsHtml(d[n].attrs, DOMAIN d[n].attrs) \o <<">">>
         \o (IF is_void_element(d[n].tag) THEN <<>>
             ELSE ChildrenHtml(d, n, n + 1) \o <<"<", "/", d[n].tag, ">">>)

\* str::find: the first position of token c in h, 0 when absent
Find(h, c) ==
    LET at == {i \in 1..Len(h) : h[i] = c}
    IN  IF at = {} THEN 0 ELSE CHOOSE i \in at : \A j \in at : i <= j

is_void_element_from_html(h) ==
    LET tag_end == Find(h, ">")
    IN  IF tag_end = 0 THEN FALSE
        ELSE LET tag == TrimStart(SubSeq(h, 2, tag_end - 1))
             IN  tag # <<>> /\ is_void_element(tag[1])

get_void_text_from_html(h) ==
    LET close_pos == Find(h, ">")
    IN  IF close_pos = 0 THEN NoneOpt
        ELSE LET after_open == SubSeq(h, close_pos + 1, Len(h))
                 next_tag == Find(after_open, "<")
             IN  IF next_tag = 0 THEN NoneOpt
                 ELSE LET trimmed == trim(SubSeq(after_open, 1, next_tag - 1))
                      IN  IF trimmed # <<>> THEN Some(trimmed) ELSE NoneOpt

(***************************************************************************)
(* Dom::apply_pipes_to_node                                                *)
(***************************************************************************)
\* the value the source pipe yields for node n
InitialValue(d, n, source) ==
    IF source = NoneOpt THEN Ok(JStr(NodeText(d, n)))
    ELSE IF source[1].c = "Attr"
    THEN LET a == NodeAttr(d, n, source[1].name)
         IN  Ok(IF a # NoneOpt THEN JStr(a[1]) ELSE Null)
    ELSE IF source[1].c = "Void"
    THEN LET text_content == NodeText(d, n)
         IN  IF text_content = <<>> /\ is_void_element_from_html(Html(d, n))
             THEN LET v == get_void_text_from_html(Html(d, n))
                  IN  Ok(JStr(IF v # NoneOpt THEN v[1] ELSE text_content))
             ELSE Ok(JStr(text_content))
    ELSE Err("Non-source pipe in source_pipe position")

\* the pipe try_fold takes at step k (1-based) of the transform pipes ps
NextPipe_Reversed(ps, k) == ps[Len(ps) + 1 - k]

NextPipe(ps, k) == ps[k]

\* transform_pipes.into_iter().try_fold(initial_value, apply_pipe), from step k
RECURSIVE FoldPipes(_, _, _, _)
FoldPipes(value, ps, k, ch) ==
    IF k > Len(ps) THEN [r |-> Ok(value), cache |-> ch]
    ELSE LET step == apply_pipe(value, NextPipe(ps, k), ch)
         IN  IF ~step.r.ok THEN step
             ELSE FoldPipes(step.r.v, ps, k + 1, step.cache)

\* no early return: a missing node is a null initial value for the fold
apply_pipes_to_node_FoldOnNull(d, node, ps, ch) ==
    IF node = NoneOpt
    THEN FoldPipes(Null, split_source_and_transforms(ps).transforms, 1, ch)
    ELSE LET split == split_source_and_transforms(ps)
             initial_value == InitialValue(d, node[1], split.source)
         IN  IF ~initial_value.ok THEN [r |-> initial_value, cache |-> ch]
             ELSE FoldPipes(initial_value.v, split.transforms, 1, ch)

apply_pipes_to_node(d, node, ps, ch) ==
    IF node = NoneOpt THEN [r |-> Ok(Null), cache |-> ch]
    ELSE LET split == split_source_and_transforms(ps)
             initial_value == InitialValue(d, node[1], split.source)
         IN  IF ~initial_value.ok THEN [r |-> initial_value, cache |-> ch]
             ELSE FoldPipes(initial_value.v, split.transforms, 1, ch)

(***************************************************************************)
(* Dom::extract_fallback_selector                                          *)
(***************************************************************************)
\* only null counts as no result
Rejected_NullOnly(res) == is_null(res)

\* not a meaningful result: null, or a string that is empty after trim
Rejected(res) == is_null(res) \/ (res.t = "str" /\ trim(res.s) = <<>>)

\* one iteration of the loop: select_node, then apply_pipes_to_node
PipesOnSelected(d, node, ps, ch) ==
    IF ~node.ok THEN [r |-> node, cache |-> ch]
    ELSE apply_pipes_to_node(d, node.v, ps, ch)

TryAlternative(d, alt, scope, ch) ==
    PipesOnSelected(d, select_node(d, alt[1], scope), alt[2], ch)

\* the alternative the loop takes at iteration i (1-based)
NextAlternative_RightToLeft(selectors, i) == selectors[Len(selectors) + 1 - i]

NextAlternative(selectors, i) == selectors[i]

RECURSIVE FallbackFrom(_, _, _, _, _)
FallbackFrom(d, selectors, i, scope, ch) ==
    IF i > Len(selectors) THEN [r |-> Ok(Null), cache |-> ch]
    ELSE LET res == TryAlternative(d, NextAlternative(selectors, i), scope, ch)
         IN  IF ~res.r.ok THEN res
             ELSE IF Rejected(res.r.v) THEN FallbackFrom(d, selectors, i + 1, scope, res.cache)
             ELSE res

extract_fallback_selector(d, selectors, scope, ch) ==
    FallbackFrom(d, selectors, 1, scope, ch)

(***************************************************************************)
(* The spec types of src/src/spec.rs.  ObjectSpec.fields is a HashMap: a   *)
(* sequence of fields with distinct keys stands for one iteration order.   *)
(***************************************************************************)
ObjectSpec(scope_selector, fs) == [scope_selector |-> scope_selector, fields |-> fs]
Field(key, spec, optional) == [key |-> key, spec |-> spec, optional |-> optional]
ArraySpec(item_spec) == [item_spec |-> item_spec]

Selector(selector, ps) == [f |-> "Selector", selector |-> selector, pipes |-> ps]
FallbackSelector(selectors) == [f |-> "FallbackSelector", selectors |-> selectors]
Nested(obj) == [f |-> "Nested", obj |-> obj]
NestedArray(arr) == [f |-> "NestedArray", arr |-> arr]
Literal(lit) == [f |-> "Literal", lit |-> lit]

LitString(str) == [l |-> "String", s |-> str]
LitNumber(n) == [l |-> "Number", n |-> n]
LitBoolean(b) == [l |-> "Boolean", b |-> b]
LitNull == [l |-> "Null"]

SpecObject(obj) == [s |-> "Object", obj |-> obj]
SpecArray(arr) == [s |-> "Array", arr |-> arr]
SpecLiteral(lit) == [s |-> "Literal", lit |-> lit]

(***************************************************************************)
(* Dom::extract and the functions under it.  Each returns its Result and   *)
(* the regex cache after the call.                                         *)
(***************************************************************************)
literal_to_json(lit) ==
    CASE lit.l = "String" -> JStr(lit.s)
      [] lit.l = "Number" -> JNum(lit.n)
      [] lit.l = "Boolean" -> JBool(lit.b)
      [] lit.l = "Null" -> Null

RECURSIVE extract_field(_, _, _, _)
RECURSIVE extract_object(_, _, _, _)
RECURSIVE extract_array(_, _, _, _)
RECURSIVE extract_object_from_fields(_, _, _, _)
RECURSIVE CollectFields(_, _, _, _, _, _)
RECURSIVE ExtractItems(_, _, _, _, _, _)

\* fields.iter().map(..).collect::<Result<Vec<_>, _>>(): the triples
\* (key, value, optional) in iteration order, or the first error
CollectNext_SkipFailed(d, fs, i, scope, acc, got) ==
    IF ~got.r.ok
    THEN CollectFields(d, fs, i + 1, scope, got.cache, Append(acc, <<fs[i].key, Null, fs[i].optional>>))
    ELSE CollectFields(d, fs, i + 1, scope, got.cache,
                       Append(acc, <<fs[i].key, got.r.v, fs[i].optional>>))

CollectNext(d, fs, i, scope, acc, got) ==
    IF ~got.r.ok THEN got
    ELSE CollectFields(d, fs, i + 1, scope, got.cache,
                       Append(acc, <<fs[i].key, got.r.v, fs[i].optional>>))

CollectFields(d, fs, i, scope, ch, acc) ==
    IF i > Len(fs) THEN [r |-> Ok(acc), cache |-> ch]
    ELSE CollectNext(d, fs, i, scope, acc, extract_field(d, fs[i].spec, scope, ch))

\* Ok(Value::Object(filter_optional_fields(result)))
ShapeCollected(got) ==
    IF ~got.r.ok THEN got
    ELSE [r |-> Ok(JObj(filter_optional_fields(got.r.v))), cache |-> got.cache]

extract_object_from_fields(d, fs, scope, ch) ==
    ShapeCollected(CollectFields(d, fs, 1, scope, ch, <<>>))

ObjectIn(d, spec, scope, ch) ==
    IF ~scope.ok THEN [r |-> scope, cache |-> ch]
    ELSE ShapeCollected(CollectFields(d, spec.fields, 1, scope.v, ch, <<>>))

extract_object(d, spec, scope_node, ch) ==
    ObjectIn(d, spec, resolve_scope(d, spec.scope_selector, scope_node), ch)

\* nodes.iter().map(extract_object_from_fields).collect::<Result<Vec<_>, _>>()
ItemNext(d, fs, nodes, i, acc, got) ==
    IF ~got.r.ok THEN got
    ELSE ExtractItems(d, fs, nodes, i + 1, got.cache, Append(acc, got.r.v))

ExtractItems(d, fs, nodes, i, ch, acc) ==
    IF i > Len(nodes) THEN [r |-> Ok(JArr(acc)), cache |-> ch]
    ELSE ItemNext(d, fs, nodes, i, acc,
                  extract_object_from_fields(d, fs, Some(nodes[i]), ch))

\* selector_str.trim().strip_prefix('>').map(trim).unwrap_or(selector_str)
EffectiveSelector(selector_str) ==
    IF trim(selector_str) # <<>> /\ trim(selector_str)[1] = ">"
    THEN trim(Tail(trim(selector_str)))
    ELSE selector_str

ItemSelector(spec) ==
    IF spec.item_spec.scope_selector = NoneOpt THEN <<"*">>
    ELSE spec.item_spec.scope_selector[1]

\* only the first matched node becomes an item
ArrayOver_FirstOnly(d, spec, nodes, ch) ==
    IF ~nodes.ok THEN [r |-> nodes, cache |-> ch]
    ELSE IF nodes.v = <<>> THEN [r |-> Ok(JArr(<<>>)), cache |-> ch]
    ELSE ExtractItems(d, spec.item_spec.fields, <<nodes.v[1]>>, 1, ch, <<>>)

ArrayOver(d, spec, nodes, ch) ==
    IF ~nodes.ok THEN [r |-> nodes, cache |-> ch]
    ELSE IF nodes.v = <<>> THEN [r |-> Ok(JArr(<<>>)), cache |-> ch]
    ELSE ExtractItems(d, spec.item_spec.fields, nodes.v, 1, ch, <<>>)

\* Ok(Value::Array(vec![obj]))
ArrayOfOne(got) ==
    IF ~got.r.ok THEN got ELSE [r |-> Ok(JArr(<<got.r.v>>)), cache |-> got.cache]

extract_array(d, spec, scope, ch) ==
    IF spec.item_spec.scope_selector = Some(SelfRef) /\ scope # NoneOpt
    THEN ArrayOfOne(extract_object(d, spec.item_spec, scope, ch))
    ELSE ArrayOver(d, spec,
                   IF scope # NoneOpt
                   THEN query_selector_all_relative(d, scope[1], EffectiveSelector(ItemSelector(spec)))
                   ELSE query_selector_all(d, EffectiveSelector(ItemSelector(spec))),
                   ch)

extract_field(d, spec, scope, ch) ==
    CASE spec.f = "Literal" -> [r |-> Ok(literal_to_json(spec.lit)), cache |-> ch]
      [] spec.f = "Nested" -> extract_object(d, spec.obj, scope, ch)
      [] spec.f = "NestedArray" -> extract_array(d, spec.arr, scope, ch)
      [] spec.f = "Selector" ->
            PipesOnSelected(d, select_node(d, spec.selector, scope), spec.pipes, ch)
      [] spec.f = "FallbackSelector" ->
            extract_fallback_selector(d, spec.selectors, scope, ch)

extract(d, spec, ch) ==
    CASE spec.s = "Object" -> extract_object(d, spec.obj, NoneOpt, ch)
      [] spec.s = "Array" -> extract_array(d, spec.arr, NoneOpt, ch)
      [] spec.s = "Literal" -> [r |-> Ok(literal_to_json(spec.lit)), cache |-> ch]

(***************************************************************************)
(* Shaping on its own: every list of (key, value, optional) with distinct  *)
(* keys (the keys come from ObjectSpec.fields, a HashMap, iterated in any  *)
(* order) and values nested up to two levels deep.                         *)
(***************************************************************************)
MaxArr == 2

Keys == {"x", "y"}
InnerKeys == {"p", "q"}

PMaps(K, S) == UNION {[D -> S] : D \in SUBSET K}
SeqsUpTo(S, n) == UNION {[1..k -> S] : k \in 0..n}

V0 == {Null, JStr(<<"a">>)}
V1 == V0 \cup {JObj(m) : m \in PMaps(InnerKeys, V0)}
         \cup {JArr(a) : a \in SeqsUpTo(V0, MaxArr)}
V2 == V1 \cup {JObj(m) : m \in PMaps({"p"}, V1)}
         \cup {JArr(a) : a \in SeqsUpTo(V1, 1)}
         \cup {JNum([k |-> "i64", m |-> 1, e |-> 0]), JBool(FALSE)}

FieldLists ==
    {<<>>}
    \cup {<<<<"x", v, o>>>> : v \in V2, o \in BOOLEAN}
    \cup {<<<<"y", v, o>>>> : v \in V1, o \in BOOLEAN}
    \cup {<<<<"x", v, o>>, <<"y", w, n>>>> : v \in V2, o \in BOOLEAN, w \in V1, n \in BOOLEAN}
    \cup {<<<<"y", w, n>>, <<"x", v, o>>>> : v \in V2, o \in BOOLEAN, w \in V1, n \in BOOLEAN}

\* the entries of a shaped Map, in the order and with the optional flags of fs
Refields(m, fs) ==
    LET kept == SelectSeq(fs, LAMBDA f : f[1] \in DOMAIN m)
    IN  [i \in 1..Len(kept) |-> <<kept[i][1], m[kept[i][1]], kept[i][3]>>]

\* the variables an operation does not use
ShapeIdle ==
    /\ fields = None /\ result = None /\ result2 = None
    /\ cleanIn = None /\ cleaned = None /\ cleaned2 = None
DomIdle == doc = None /\ target = None
PipeIdle == pipeList = None /\ current = None /\ hist = None /\ reordered = None
FallbackIdle == alternatives = None /\ tried = None
ExtractIdle == extractSpec = None /\ output = None
SelectIdle == selectorRef = None /\ selected = None
ParseIdle == specJson = None /\ parseOut = None
LockIdle == lock = None /\ threads = None

InitShape ==
    /\ pc = "start"
    /\ fields \in FieldLists
    /\ result = None /\ result2 = None
    /\ cleanIn = None /\ cleaned = None /\ cleaned2 = None
    /\ DomIdle /\ PipeIdle /\ FallbackIdle /\ ExtractIdle /\ SelectIdle /\ ParseIdle /\ LockIdle
    /\ cache = {}

FilterOptionalFields ==
    /\ pc = "start"
    /\ result' = filter_optional_fields(fields)
    /\ pc' = "filtered"
    /\ UNCHANGED <<fields, result2, cleanIn, cleaned, cleaned2>>
    /\ UNCHANGED <<domVars, pipeVars, fallbackVars, extractVars, selectVars, parseVars, lockVars, cache>>

Refilter ==
    /\ pc = "filtered"
    /\ result2' = filter_optional_fields(Refields(result, fields))
    /\ pc' = "refiltered"
    /\ UNCHANGED <<fields, result, cleanIn, cleaned, cleaned2>>
    /\ UNCHANGED <<domVars, pipeVars, fallbackVars, extractVars, selectVars, parseVars, lockVars, cache>>

RecursivelyClean ==
    /\ pc = "refiltered"
    /\ \E i \in 1..Len(fields) :
          /\ cleanIn' = fields[i][2]
          /\ cleaned' = recursively_clean_object(fields[i][2])
    /\ pc' = "cleaned"
    /\ UNCHANGED <<fields, result, result2, cleaned2>>
    /\ UNCHANGED <<domVars, pipeVars, fallbackVars, extractVars, selectVars, parseVars, lockVars, cache>>

Reclean ==
    /\ pc = "cleaned"
    /\ cleaned2' = recursively_clean_object(cleaned)
    /\ pc' = "recleaned"
    /\ UNCHANGED <<fields, result, result2, cleanIn, cleaned>>
    /\ UNCHANGED <<domVars, pipeVars, fallbackVars, extractVars, selectVars, parseVars, lockVars, cache>>

NextShape == FilterOptionalFields \/ Refilter \/ RecursivelyClean \/ Reclean

SpecShape == InitShape /\ [][NextShape]_vars

(***************************************************************************)
(* One field's pipe run, Dom::apply_pipes_to_node, a step at a time: the   *)
(* source pipe, then each transform pipe of the try_fold, which stops at   *)
(* the first error.                                                        *)
(***************************************************************************)
MaxLen == 2
MaxPipes == 2

Chars == {" ", "h", "H", "2"}

HiText == <<" ", " ", "h", "i", " ", " ">>
PriceText == <<"P", "r", "i", "c", "e", ":", " ", "$", "2", "5", ".", "0", "0">>
NoPriceText == <<"P", "r", "i", "c", "e", ":", " ", "n", "/", "a">>
Fixtures == {HiText, PriceText, NoPriceText, <<" ", "2", ".", "5", " ">>,
             <<"h", "h", "2">>, <<" ", "h", "i">>}

Strings == SeqsUpTo(Chars, MaxLen) \cup Fixtures
AttrStrings == {<<>>, <<"h">>, <<" ", "2">>}

\* substr:start and substr:start:end up to one position past the longest text
Substrs ==
    {Substr(start, end) :
        start \in 0..(MaxLen + 1),
        end \in {NoneOpt} \cup {Some(e) : e \in 0..(MaxLen + 1)}}

Transforms == {Trim, Lower, Upper,
               ParseAsNumber, ParseAsInt, ParseAsFloat,
               Regex(PriceRe), Regex(DigitsRe), Regex(OptRe), Regex(BadRe)}
              \cup Substrs

\* the transforms that take part in the longer chains
ChainTransforms == {Trim, Upper, Substr(1, NoneOpt), ParseAsNumber,
                    Regex(PriceRe), Regex(DigitsRe)}

TransformLists == SeqsUpTo(Transforms, 1) \cup SeqsUpTo(ChainTransforms, MaxPipes)

HtmlRoot == Elem(0, "html", NoAttrs)

\* <a ...>txt</a> under the root; txt = NoneOpt: no text node
PipeDoc(attrs, txt) ==
    <<HtmlRoot, Elem(1, "a", attrs)>>
    \o (IF txt = NoneOpt THEN <<>> ELSE <<Text(2, txt[1])>>)

\* <br>txt, <br><a></a>, <a></a>txt and <br> alone under the root
SiblingTextDocs ==
    {<<HtmlRoot, Elem(1, "br", NoAttrs), Text(1, <<" ", "h">>)>>,
     <<HtmlRoot, Elem(1, "br", NoAttrs), Elem(1, "a", NoAttrs), Text(3, <<"h">>)>>,
     <<HtmlRoot, Elem(1, "a", NoAttrs), Text(1, <<"h">>)>>,
     <<HtmlRoot, Elem(1, "br", NoAttrs)>>}

PipeInputs ==
    {[doc |-> PipeDoc(NoAttrs, NoneOpt), target |-> NoneOpt, pipes |-> ts] :
        ts \in TransformLists}
    \cup {[doc |-> PipeDoc(NoAttrs, Some(txt)), target |-> Some(2), pipes |-> ts] :
            txt \in Strings \ {<<>>}, ts \in TransformLists}
    \cup {[doc |-> PipeDoc(NoAttrs, NoneOpt), target |-> Some(2), pipes |-> ts] :
            ts \in TransformLists}
    \cup {[doc |-> PipeDoc([a \in {"href"} |-> v], NoneOpt), target |-> Some(2),
           pipes |-> <<Attr("href")>> \o ts] :
            v \in AttrStrings, ts \in TransformLists}
    \cup {[doc |-> PipeDoc(NoAttrs, NoneOpt), target |-> Some(2),
           pipes |-> <<Attr("href")>> \o ts] :
            ts \in TransformLists}
    \cup {[doc |-> d, target |-> Some(2), pipes |-> ps] :
            d \in SiblingTextDocs, ps \in {<<>>, <<Void>>, <<Trim>>, <<Void, Upper>>}}

InitPipe ==
    /\ pc = "pipes_start"
    /\ \E in \in PipeInputs :
          /\ doc = in.doc
          /\ target = in.target
          /\ pipeList = in.pipes
    /\ current = None /\ hist = None /\ reordered = None
    /\ ShapeIdle /\ FallbackIdle /\ ExtractIdle /\ SelectIdle /\ ParseIdle /\ LockIdle
    /\ cache = {}

SourceOf(ps) == split_source_and_transforms(ps).source
TransformsOf(ps) == split_source_and_transforms(ps).transforms

\* no node: null, and no pipe runs; else the value of the source pipe
SourceValue ==
    /\ pc = "pipes_start"
    /\ IF target = NoneOpt
       THEN /\ current' = Ok(Null)
            /\ hist' = <<>>
            /\ pc' = "pipes_done"
       ELSE LET iv == InitialValue(doc, target[1], SourceOf(pipeList))
            IN  /\ current' = iv
                /\ hist' = <<iv>>
                /\ pc' = IF iv.ok THEN "pipes_fold" ELSE "pipes_done"
    /\ UNCHANGED <<doc, target, pipeList, reordered, cache>>
    /\ UNCHANGED <<shapeVars, fallbackVars, extractVars, selectVars, parseVars, lockVars>>

\* one step of try_fold
ApplyPipe ==
    /\ pc = "pipes_fold"
    /\ Len(hist) <= Len(TransformsOf(pipeList))
    /\ \E step \in {apply_pipe(current.v, NextPipe(TransformsOf(pipeList), Len(hist)), cache)} :
          /\ current' = step.r
          /\ hist' = Append(hist, step.r)
          /\ cache' = step.cache
          /\ pc' = IF step.r.ok THEN "pipes_fold" ELSE "pipes_done"
    /\ UNCHANGED <<doc, target, pipeList, reordered>>
    /\ UNCHANGED <<shapeVars, fallbackVars, extractVars, selectVars, parseVars, lockVars>>

\* the fold has consumed every transform pipe
PipesReturn ==
    /\ pc = "pipes_fold"
    /\ Len(hist) > Len(TransformsOf(pipeList))
    /\ pc' = "pipes_done"
    /\ UNCHANGED <<domVars, pipeVars, shapeVars, fallbackVars, extractVars, selectVars, parseVars, lockVars, cache>>

Transpositions(n) ==
    {[k \in 1..n |-> IF k = i THEN j ELSE IF k = j THEN i ELSE k] :
        <<i, j>> \in {p \in (1..n) \X (1..n) : p[1] < p[2]}}

Permuted(ps, perm) ==
    (IF SourceOf(ps) = NoneOpt THEN <<>> ELSE <<SourceOf(ps)[1]>>)
    \o [k \in 1..Len(TransformsOf(ps)) |-> TransformsOf(ps)[perm[k]]]

\* the same node with two of its transform pipes exchanged
Reorder ==
    /\ pc = "pipes_done"
    /\ target # NoneOpt
    /\ \E perm \in Transpositions(Len(TransformsOf(pipeList))) :
       \E ps \in {Permuted(pipeList, perm)} :
       \E run \in {apply_pipes_to_node(doc, target, ps, cache)} :
          /\ reordered' = [pipes |-> ps, r |-> run.r]
          /\ cache' = run.cache
    /\ pc' = "pipes_reordered"
    /\ UNCHANGED <<doc, target, pipeList, current, hist>>
    /\ UNCHANGED <<shapeVars, fallbackVars, extractVars, selectVars, parseVars, lockVars>>

NextPipeRun == SourceValue \/ ApplyPipe \/ PipesReturn \/ Reorder

SpecPipe == InitPipe /\ [][NextPipeRun]_vars

(***************************************************************************)
(* One FallbackSelector field, Dom::extract_fallback_selector, an          *)
(* iteration of its loop at a time, on documents with an optional <a> and  *)
(* an optional <b> under the root and under each scope.                    *)
(***************************************************************************)
MaxAlts == 3

APart(attrs, txt) ==
    <<Elem(1, "a", attrs)>> \o (IF txt = NoneOpt THEN <<>> ELSE <<Text(2, txt[1])>>)

AParts ==
    {<<>>} \cup {APart(attrs, txt) :
                    attrs \in {NoAttrs, [x \in {"href"} |-> <<"h">>]},
                    txt \in {NoneOpt, Some(<<" ">>), Some(<<"2">>)}}

\* <b>txt</b> as node i of the document
BPart(i, txt) == <<Elem(1, "b", NoAttrs), Text(i, txt)>>

FallbackDocs ==
    {<<HtmlRoot>> \o a : a \in AParts}
    \cup {<<HtmlRoot>> \o a \o BPart(2 + Len(a), txt) :
            a \in AParts, txt \in {<<" ">>, <<"h">>}}

\* no scope, the root element, or the second node when it is an element
Scopes(d) ==
    {NoneOpt, Some(1)} \cup (IF Len(d) >= 2 /\ d[2].tag = "a" THEN {Some(2)} ELSE {})

Alternative(selector, ps) == <<selector, ps>>

Alternatives ==
    {Alternative(<<"a">>, <<>>),
     Alternative(<<"b">>, <<>>),
     Alternative(<<"a">>, <<Attr("href")>>),
     Alternative(<<"a">>, <<ParseAsInt>>),
     Alternative(<<"!">>, <<>>),
     Alternative(<<"+", " ", "b">>, <<>>)}

AlternativeLists == SeqsUpTo(Alternatives, MaxAlts) \ SeqsUpTo(Alternatives, 1)

InitFallback ==
    /\ pc = "fallback_loop"
    /\ doc \in FallbackDocs
    /\ target \in Scopes(doc)
    /\ alternatives \in AlternativeLists
    /\ tried = <<>>
    /\ current = None
    /\ pipeList = None /\ hist = None /\ reordered = None
    /\ ShapeIdle /\ ExtractIdle /\ SelectIdle /\ ParseIdle /\ LockIdle
    /\ cache = {}

\* one iteration of the for loop: its node and result, then the match
EvalAlternative ==
    /\ pc = "fallback_loop"
    /\ Len(tried) < Len(alternatives)
    /\ \E res \in {TryAlternative(doc, NextAlternative(alternatives, Len(tried) + 1),
                                  target, cache)} :
          /\ tried' = Append(tried, res.r)
          /\ cache' = res.cache
          /\ IF res.r.ok /\ Rejected(res.r.v)
             THEN pc' = "fallback_loop" /\ UNCHANGED current
             ELSE pc' = "fallback_done" /\ current' = res.r
    /\ UNCHANGED <<doc, target, alternatives, pipeList, hist, reordered>>
    /\ UNCHANGED <<shapeVars, extractVars, selectVars, parseVars, lockVars>>

\* the loop ran out of alternatives
Exhausted ==
    /\ pc = "fallback_loop"
    /\ Len(tried) = Len(alternatives)
    /\ current' = Ok(Null)
    /\ pc' = "fallback_done"
    /\ UNCHANGED <<doc, target, alternatives, tried, pipeList, hist, reordered, cache>>
    /\ UNCHANGED <<shapeVars, extractVars, selectVars, parseVars, lockVars>>

NextFallback == EvalAlternative \/ Exhausted

SpecFallback == InitFallback /\ [][NextFallback]_vars

(***************************************************************************)
(* Dom::extract as one call, on specs up to two objects deep: a root       *)
(* object or a root array, whose field x is a scalar, a nested object or a *)
(* nested array.                                                           *)
(***************************************************************************)
ScalarSpecs ==
    {Selector(<<"a">>, <<>>),
     Selector(<<"a">>, <<Attr("href")>>),
     Selector(<<"b">>, <<Regex(DigitsRe)>>),
     Selector(<<"b">>, <<ParseAsInt>>),
     Selector(<<"!">>, <<>>),
     Selector(<<"$">>, <<>>),
     Literal(LitNull),
     FallbackSelector(<<Alternative(<<"b">>, <<>>),
                        Alternative(<<"a">>, <<Attr("href")>>)>>)}

SecondInner ==
    {Field("v", Selector(<<"b">>, <<>>), FALSE), Field("v", Literal(LitNull), TRUE)}

InnerFieldLists ==
    {<<Field("u", sp, o)>> : sp \in ScalarSpecs, o \in BOOLEAN}
    \cup {<<Field("u", sp, o), f>> : sp \in ScalarSpecs, o \in BOOLEAN, f \in SecondInner}

InnerObjects ==
    {ObjectSpec(sc, fs) : sc \in {NoneOpt, Some(<<"a">>)}, fs \in InnerFieldLists}

\* an array two objects below the root: {"u": [{"$": "a", "w": ...}]}
DeepSpecs ==
    {Nested(ObjectSpec(NoneOpt,
        <<Field("u", NestedArray(ArraySpec(ObjectSpec(Some(<<"a">>), <<Field("w", sp, FALSE)>>))),
                FALSE)>>)) :
        sp \in {Selector(<<"$">>, <<>>), Selector(<<"b">>, <<>>)}}

\* [{"$": "$", "w": ...}]
SelfRefArrays ==
    {ArraySpec(ObjectSpec(Some(SelfRef), <<Field("w", sp, FALSE)>>)) :
        sp \in {Selector(<<"$">>, <<>>), Selector(<<"b">>, <<>>)}}

\* objects whose scope selector is $, "> b" or "b"
ScopedObjects ==
    {ObjectSpec(Some(sc), <<Field("u", sp, FALSE)>>) :
        sc \in {SelfRef, <<">", " ", "b">>, <<"b">>},
        sp \in {Selector(<<"$">>, <<>>), Selector(<<"b">>, <<>>)}}

\* field specs with a selector that is no CSS: as the scope of an object, the
\* item selector of an array, a direct-child field, a fallback alternative
InvalidSpecs ==
    {Nested(ObjectSpec(Some(<<"!">>), <<Field("u", Selector(<<"a">>, <<>>), FALSE)>>)),
     NestedArray(ArraySpec(ObjectSpec(Some(<<"!">>),
                                      <<Field("u", Selector(<<"a">>, <<>>), FALSE)>>))),
     Selector(<<">", " ", "!">>, <<>>),
     FallbackSelector(<<Alternative(<<"a">>, <<>>), Alternative(<<"!">>, <<>>)>>)}

\* a next-sibling field: "+ b"
SiblingSpecs == {Selector(<<"+", " ", "b">>, <<>>)}

FieldSpecs ==
    ScalarSpecs
    \cup {Nested(o) : o \in InnerObjects}
    \cup {NestedArray(ArraySpec(o)) : o \in InnerObjects}
    \cup DeepSpecs
    \cup {NestedArray(arr) : arr \in SelfRefArrays}
    \cup {Nested(o) : o \in ScopedObjects}
    \cup InvalidSpecs
    \cup SiblingSpecs

SecondRoot ==
    {Field("y", Selector(<<"a">>, <<>>), FALSE), Field("y", Selector(<<"b">>, <<>>), TRUE),
     Field("y", Selector(<<"a">>, <<ParseAsInt>>), FALSE)}

RootFieldLists ==
    {<<Field("x", sp, o)>> : sp \in FieldSpecs, o \in BOOLEAN}
    \cup {<<Field("x", sp, o), f>> : sp \in FieldSpecs, o \in BOOLEAN, f \in SecondRoot}

Specs ==
    {SpecObject(ObjectSpec(sc, fs)) : sc \in {NoneOpt, Some(<<"a">>)}, fs \in RootFieldLists}
    \cup {SpecArray(ArraySpec(ObjectSpec(sc, fs))) :
            sc \in {NoneOpt, Some(<<"a">>)}, fs \in RootFieldLists}
    \cup {SpecArray(arr) : arr \in SelfRefArrays}
    \cup {SpecObject(o) : o \in ScopedObjects}
    \cup {SpecLiteral(LitNull), SpecLiteral(LitString(<<"h">>))}

HrefH == [x \in {"href"} |-> <<"h">>]

ExtractDocs ==
    {<<HtmlRoot>>,
     <<HtmlRoot>> \o APart(NoAttrs, NoneOpt),
     <<HtmlRoot>> \o APart(HrefH, Some(<<"2">>)),
     <<HtmlRoot>> \o APart(NoAttrs, Some(<<" ">>)) \o BPart(4, <<"h">>),
     <<HtmlRoot>> \o APart(HrefH, Some(<<"2">>)) \o BPart(4, <<" ">>),
     <<HtmlRoot>> \o BPart(2, <<"h">>),
     <<HtmlRoot, Elem(1, "a", NoAttrs), Elem(2, "b", NoAttrs), Text(3, <<"h">>)>>,
     <<HtmlRoot>> \o APart(HrefH, Some(<<"2">>)) \o APart(NoAttrs, NoneOpt)}

InitExtract ==
    /\ pc = "extract_start"
    /\ doc \in ExtractDocs
    /\ target = NoneOpt
    /\ extractSpec \in Specs
    /\ output = None
    /\ ShapeIdle /\ PipeIdle /\ FallbackIdle /\ SelectIdle /\ ParseIdle /\ LockIdle
    /\ cache = {}

\* Dom::extract
Extract ==
    /\ pc = "extract_start"
    /\ \E got \in {extract(doc, extractSpec, cache)} :
          /\ output' = got.r
          /\ cache' = got.cache
    /\ pc' = "extracted"
    /\ UNCHANGED <<domVars, extractSpec, shapeVars, pipeVars, fallbackVars, selectVars, parseVars, lockVars>>

NextExtract == Extract

SpecExtract == InitExtract /\ [][NextExtract]_vars

(***************************************************************************)
(* Dom::select_node and Dom::resolve_scope as single calls: a selector     *)
(* string resolved against a document under a scope (a node or none).      *)
(***************************************************************************)
SelectDocs ==
    {<<HtmlRoot, Elem(1, "a", NoAttrs)>>,
     <<HtmlRoot, Elem(1, "a", NoAttrs), Text(2, <<"2">>), Elem(1, "b", NoAttrs), Text(4, <<"h">>)>>,
     <<HtmlRoot, Elem(1, "a", NoAttrs), Elem(1, "a", NoAttrs), Text(3, <<"2">>),
       Elem(3, "b", NoAttrs), Text(5, <<"h">>)>>,
     <<HtmlRoot, Elem(1, "a", NoAttrs), Elem(1, "b", NoAttrs), Elem(1, "a", NoAttrs),
       Elem(4, "b", NoAttrs), Elem(4, "b", NoAttrs), Elem(1, "a", NoAttrs), Elem(7, "b", NoAttrs)>>,
     <<HtmlRoot, Elem(1, "b", NoAttrs), Elem(2, "a", NoAttrs), Text(2, <<"h">>),
       Elem(2, "a", NoAttrs), Elem(5, "b", NoAttrs)>>}

SelectorRefs ==
    {<<"$">>, <<"a">>, <<"b">>, <<"*">>, <<"a", ">", "b">>, <<"!">>,
     <<">", " ", "b">>, <<">", "b">>, <<">", " ", "a">>, <<">", " ", "!">>, <<">", " ", "$">>,
     <<"+", " ", "b">>, <<"+", " ", "a">>, <<"+", " ", "a", " ", "b">>, <<"+", " ", "!">>}

ScopesOf(d) == {NoneOpt} \cup {Some(n) : n \in {i \in 1..Len(d) : IsElem(d, i)}}

InitSelect ==
    /\ pc = "select_start"
    /\ doc \in SelectDocs
    /\ target \in ScopesOf(doc)
    /\ selectorRef \in SelectorRefs
    /\ selected = None
    /\ ShapeIdle /\ PipeIdle /\ FallbackIdle /\ ExtractIdle /\ ParseIdle /\ LockIdle
    /\ cache = {}

\* Dom::select_node(selector, scope)
SelectNode ==
    /\ pc = "select_start"
    /\ selected' = select_node(doc, selectorRef, target)
    /\ pc' = "node_selected"
    /\ UNCHANGED <<domVars, selectorRef, shapeVars, pipeVars, fallbackVars, extractVars,
                   parseVars, lockVars, cache>>

\* Dom::resolve_scope(Some(selector), base)
ResolveScope ==
    /\ pc = "select_start"
    /\ selected' = resolve_scope(doc, Some(selectorRef), target)
    /\ pc' = "scope_resolved"
    /\ UNCHANGED <<domVars, selectorRef, shapeVars, pipeVars, fallbackVars, extractVars,
                   parseVars, lockVars, cache>>

NextSelect == SelectNode \/ ResolveScope

SpecSelect == InitSelect /\ [][NextSelect]_vars

(***************************************************************************)
(* The spec parser of src/src/spec.rs.  A string of the spec is a sequence *)
(* of tokens, each standing for its characters: the characters the parser  *)
(* inspects ("'", the double quote, " ", "|", ":", "?", "$", digits), the   *)
(* command words ("trim", "attr:", "substr:", ...) and names.  A JSON      *)
(* object of the spec is the sequence of its (key, value) entries in the   *)
(* order the Map iterates them.  A panic is an outcome next to Ok and Err. *)
(***************************************************************************)
SObj(entries) == [t |-> "obj", entries |-> entries]

Panicked == [ok |-> FALSE, panic |-> TRUE]
IsPanic(r) == "panic" \in DOMAIN r

\* String::to_string of a token string: a name of one token is that token
NameOf(s) == IF Len(s) = 1 THEN s[1] ELSE s

starts_with(s, t) == s # <<>> /\ s[1] = t
ends_with(s, t) == s # <<>> /\ s[Len(s)] = t

\* str::split(sep) on a one-character separator
RECURSIVE Split(_, _)
Split(s, sep) ==
    IF Find(s, sep) = 0 THEN <<s>>
    ELSE <<SubSeq(s, 1, Find(s, sep) - 1)>> \o Split(SubSeq(s, Find(s, sep) + 1, Len(s)), sep)

\* the position of the first "||" in s, or 0
FindBars(s) ==
    IF \E i \in 1..(Len(s) - 1) : s[i] = "|" /\ s[i + 1] = "|"
    THEN Least({i \in 1..(Len(s) - 1) : s[i] = "|" /\ s[i + 1] = "|"})
    ELSE 0

\* str::split("||")
RECURSIVE SplitBars(_)
SplitBars(s) ==
    IF FindBars(s) = 0 THEN <<s>>
    ELSE <<SubSeq(s, 1, FindBars(s) - 1)>> \o SplitBars(SubSeq(s, FindBars(s) + 2, Len(s)))

Trimmed(parts) == [i \in 1..Len(parts) |-> trim(parts[i])]

\* str::parse::<usize>: decimal digits after an optional "+"
ParseUsize(s) ==
    IF s # <<>> /\ \A i \in 1..Len(s) : s[i] \in Digits THEN Some(ParseNat(s))
    ELSE IF Len(s) >= 2 /\ s[1] = "+" /\ \A i \in 2..Len(s) : s[i] \in Digits
    THEN Some(ParseNat(Tail(s)))
    ELSE NoneOpt

\* the slice &trimmed[1..trimmed.len() - 1] panics when the string is one
\* quote character: the range starts after its end
parse_literal_string(s) ==
    IF \/ (starts_with(trim(s), "'") /\ ends_with(trim(s), "'"))
       \/ (starts_with(trim(s), "\"") /\ ends_with(trim(s), "\""))
    THEN IF Len(trim(s)) < 2 THEN Panicked
         ELSE Ok(Some(LitString(SubSeq(trim(s), 2, Len(trim(s)) - 1))))
    ELSE Ok(NoneOpt)

SubstrEnd(start, parts) ==
    IF Len(parts) > 1
    THEN IF ParseUsize(parts[2]) = NoneOpt THEN Err("Invalid substr end")
         ELSE Ok(Substr(start, ParseUsize(parts[2])))
    ELSE Ok(Substr(start, NoneOpt))

parse_substr_command(rest) ==
    IF ParseUsize(Split(rest, ":")[1]) = NoneOpt THEN Err("Invalid substr start")
    ELSE SubstrEnd(ParseUsize(Split(rest, ":")[1])[1], Split(rest, ":"))

\* the pattern is trimmed once more after the prefix is stripped
parse_pipe_command_TrimmedPattern(s) ==
    CASE s \in {<<"trim">>, <<"text">>} -> Ok(Trim)
      [] s = <<"lower">> -> Ok(Lower)
      [] s = <<"upper">> -> Ok(Upper)
      [] s = <<"void">> -> Ok(Void)
      [] s = <<"parseAs:number">> -> Ok(ParseAsNumber)
      [] s = <<"parseAs:int">> -> Ok(ParseAsInt)
      [] s = <<"parseAs:float">> -> Ok(ParseAsFloat)
      [] starts_with(s, "attr:") -> Ok(Attr(NameOf(Tail(s))))
      [] starts_with(s, "substr:") -> parse_substr_command(Tail(s))
      [] starts_with(s, "regex:") -> Ok(Regex(trim(Tail(s))))
      [] OTHER -> Err("Unknown pipe command")

parse_pipe_command(s) ==
    CASE s \in {<<"trim">>, <<"text">>} -> Ok(Trim)
      [] s = <<"lower">> -> Ok(Lower)
      [] s = <<"upper">> -> Ok(Upper)
      [] s = <<"void">> -> Ok(Void)
      [] s = <<"parseAs:number">> -> Ok(ParseAsNumber)
      [] s = <<"parseAs:int">> -> Ok(ParseAsInt)
      [] s = <<"parseAs:float">> -> Ok(ParseAsFloat)
      [] starts_with(s, "attr:") -> Ok(Attr(NameOf(Tail(s))))
      [] starts_with(s, "substr:") -> parse_substr_command(Tail(s))
      [] starts_with(s, "regex:") -> Ok(Regex(Tail(s)))
      [] OTHER -> Err("Unknown pipe command")

\* for part in &parts[pipe_start..]: the empty parts are skipped, the first
\* command that does not parse is the error
RECURSIVE PipesFrom(_, _, _)
PipeParsed(parts, i, pipes, cmd) ==
    IF ~cmd.ok THEN cmd ELSE PipesFrom(parts, i + 1, Append(pipes, cmd.v))

PipesFrom(parts, i, pipes) ==
    IF i > Len(parts) THEN Ok(pipes)
    ELSE IF parts[i] = <<>> THEN PipesFrom(parts, i + 1, pipes)
    ELSE PipeParsed(parts, i, pipes, parse_pipe_command(parts[i]))

SelectorWith(selector, pipes) ==
    IF ~pipes.ok THEN pipes ELSE Ok(<<selector, pipes.v>>)

SelectorOfParts(parts) ==
    IF starts_with(parts[1], "attr:") THEN SelectorWith(<<"$">>, PipesFrom(parts, 1, <<>>))
    ELSE IF parts[1] = <<"$">> THEN SelectorWith(<<"$">>, PipesFrom(parts, 2, <<>>))
    ELSE SelectorWith(parts[1], PipesFrom(parts, 2, <<>>))

parse_selector_string(s) ==
    IF trim(s) = <<"$">> THEN Ok(<<<<"$">>, <<>>>>)
    ELSE SelectorOfParts(Trimmed(Split(trim(s), "|")))

\* the loop over the parts of a fallback: the first part that does not
\* parse is the error
RECURSIVE FallbackParts(_, _, _)
FallbackParsed(parts, i, selectors, one) ==
    IF ~one.ok THEN one ELSE FallbackParts(parts, i + 1, Append(selectors, one.v))

FallbackParts(parts, i, selectors) ==
    IF i > Len(parts) THEN Ok(FallbackSelector(selectors))
    ELSE FallbackParsed(parts, i, selectors, parse_selector_string(parts[i]))

SingleSelector(one) ==
    IF ~one.ok THEN one ELSE Ok(Selector(one.v[1], one.v[2]))

parse_selector_or_fallback(s) ==
    IF FindBars(trim(s)) # 0
    THEN FallbackParts(Trimmed(SplitBars(trim(s))), 1, <<>>)
    ELSE SingleSelector(parse_selector_string(trim(s)))

RECURSIVE parse_object_spec(_)
RECURSIVE ObjectEntries(_, _, _, _)

LiteralOr(literal, s) ==
    IF ~literal.ok THEN literal
    ELSE IF literal.v # NoneOpt THEN Ok(Literal(literal.v[1]))
    ELSE parse_selector_or_fallback(s)

NestedOf(spec) == IF ~spec.ok THEN spec ELSE Ok(Nested(spec.v))
NestedArrayOf(item_spec) ==
    IF ~item_spec.ok THEN item_spec ELSE Ok(NestedArray(ArraySpec(item_spec.v)))

\* FieldSpec::from_json
FieldSpec_from_json(value) ==
    CASE value.t = "str" -> LiteralOr(parse_literal_string(value.s), value.s)
      [] value.t = "num" -> Ok(Literal(LitNumber(value.n)))
      [] value.t = "bool" -> Ok(Literal(LitBoolean(value.b)))
      [] value.t = "null" -> Ok(Literal(LitNull))
      [] value.t = "arr" /\ value.a # <<>> -> NestedArrayOf(parse_object_spec(value.a[1]))
      [] value.t = "obj" -> NestedOf(parse_object_spec(value))
      [] value.t = "arr" /\ value.a = <<>> -> Ok(Literal(LitNull))

\* HashMap::insert: a field of the same name is replaced
InsertField(fs, f) ==
    IF \E i \in 1..Len(fs) : fs[i].key = f.key
    THEN [i \in 1..Len(fs) |-> IF fs[i].key = f.key THEN f ELSE fs[i]]
    ELSE Append(fs, f)

FieldEntry(entries, i, scope_selector, fs, key, optional, spec) ==
    IF ~spec.ok THEN spec
    ELSE ObjectEntries(entries, i + 1, scope_selector,
                       InsertField(fs, Field(NameOf(key), spec.v, optional)))

\* for (key, val) in obj
ObjectEntries(entries, i, scope_selector, fs) ==
    IF i > Len(entries) THEN Ok(ObjectSpec(scope_selector, fs))
    ELSE IF entries[i][1] = <<"$">>
    THEN ObjectEntries(entries, i + 1,
                       IF entries[i][2].t = "str" THEN Some(entries[i][2].s)
                       ELSE scope_selector, fs)
    ELSE IF ends_with(entries[i][1], "?")
    THEN FieldEntry(entries, i, scope_selector, fs,
                    SubSeq(entries[i][1], 1, Len(entries[i][1]) - 1), TRUE,
                    FieldSpec_from_json(entries[i][2]))
    ELSE FieldEntry(entries, i, scope_selector, fs, entries[i][1], FALSE,
                    FieldSpec_from_json(entries[i][2]))

parse_object_spec(value) ==
    IF value.t # "obj" THEN Err("Expected object")
    ELSE ObjectEntries(value.entries, 1, NoneOpt, <<>>)

SpecArrayOf(item_spec) ==
    IF ~item_spec.ok THEN item_spec ELSE Ok(SpecArray(ArraySpec(item_spec.v)))
SpecObjectOf(spec) == IF ~spec.ok THEN spec ELSE Ok(SpecObject(spec.v))

\* Spec::from_json
from_json(value) ==
    CASE value.t = "arr" /\ value.a # <<>> -> SpecArrayOf(parse_object_spec(value.a[1]))
      [] value.t = "obj" -> SpecObjectOf(parse_object_spec(value))
      [] OTHER -> Ok(SpecObject(ObjectSpec(NoneOpt, <<>>)))

(***************************************************************************)
(* Spec::from_json as one call, on spec documents whose field values are   *)
(* selector strings with up to MaxParts pipe parts, short strings over the *)
(* quote, space and bar characters, the other JSON types, and nestings.    *)
(***************************************************************************)
MaxParts == 2

SelectorTexts == {<<"a">>, <<"$">>, <<"attr:", "href">>, <<>>}

PipeTexts ==
    {<<"trim">>, <<"upper">>, <<"void">>, <<"attr:", "href">>, <<"parseAs:int">>,
     <<"substr:", "0", ":", "2">>, <<"substr:", "h">>, <<"regex:", "h">>, <<"x">>, <<>>}

\* the parts joined by " | "
RECURSIVE Piped(_)
Piped(parts) ==
    IF parts = <<>> THEN <<>> ELSE <<" ", "|", " ">> \o Head(parts) \o Piped(Tail(parts))

PipeStrings == {sel \o Piped(ps) : sel \in SelectorTexts, ps \in SeqsUpTo(PipeTexts, MaxParts)}

RawStrings == SeqsUpTo({"'", "\"", " ", "|", "a"}, 2)

OtherStrings ==
    {<<"'", "h", "'">>, <<" ", "\"", "a", " ", "|", "\"", " ">>,
     <<"a", " ", "|", "|", " ", "b", " ", "|", " ", "attr:", "href">>,
     <<"a", "|", "trim", "|", "|", "b", "|", "x">>,
     <<"a", "|", "substr:", "+", "2", ":", "5", ":", "h">>,
     <<"a", "|", "substr:", "2", ":">>}

\* pattern texts of up to MaxPattern characters, and the selector strings
\* "a | regex:P" and "a | regex:P | trim"
MaxPattern == 2

Patterns == SeqsUpTo({"h", "(", "|", " "}, MaxPattern)

RegexString(P) == <<"a", " ", "|", " ", "regex:">> \o P

RegexStrings ==
    {RegexString(P) : P \in Patterns}
    \cup {RegexString(P) \o <<" ", "|", " ", "trim">> : P \in Patterns}

FieldStrings == PipeStrings \cup RawStrings \cup OtherStrings \cup RegexStrings

FewJsons ==
    {JStr(<<"a">>), JStr(<<"'">>), JStr(<<"a", " ", "|", " ", "trim", " ", "|", " ", "void">>),
     JStr(<<"a", "|", "x">>), Null, JNum(2), JBool(TRUE), JArr(<<>>), JArr(<<Null>>),
     SObj(<<>>)}

FieldJsons ==
    {JStr(s) : s \in FieldStrings}
    \cup FewJsons
    \cup {SObj(<<<<<<"u">>, v>>>>) : v \in FewJsons}
    \cup {JArr(<<SObj(<<<<<<"$">>, JStr(<<"a">>)>>, <<<<"u">>, v>>>>)>>) : v \in FewJsons}

SpecJsons ==
    {SObj(<<<<k, v>>>>) : k \in {<<"x">>, <<"x", "?">>}, v \in FieldJsons}
    \cup {SObj(<<<<<<"$">>, sc>>, <<<<"x">>, v>>>>) :
            sc \in {JStr(<<"a">>), Null}, v \in FewJsons}
    \cup {SObj(<<<<<<"x">>, v>>, <<<<"x", "?">>, w>>>>) : v \in FewJsons, w \in FewJsons}
    \cup {JArr(<<SObj(<<<<<<"x">>, v>>>>)>>) : v \in FewJsons}
    \cup FewJsons

InitParse ==
    /\ pc = "parse_start"
    /\ specJson \in SpecJsons
    /\ parseOut = None
    /\ ShapeIdle /\ DomIdle /\ PipeIdle /\ FallbackIdle /\ ExtractIdle /\ SelectIdle
    /\ LockIdle
    /\ cache = {}

\* Spec::from_json
FromJson ==
    /\ pc = "parse_start"
    /\ parseOut' = from_json(specJson)
    /\ pc' = "parsed"
    /\ UNCHANGED <<specJson, shapeVars, domVars, pipeVars, fallbackVars, extractVars,
                   selectVars, lockVars, cache>>

NextParse == FromJson

SpecParse == InitParse /\ [][NextParse]_vars

(***************************************************************************)
(* Shaping claims                                                          *)
(***************************************************************************)
Shaped == pc \in {"filtered", "refiltered", "cleaned", "recleaned"}

PruningExample == <<<<"x", Null, TRUE>>, <<"y", Null, FALSE>>>>

\* C2: an optional field whose value is null is never a key of the shaped
\* object, and the fields x (optional, null), y (non-optional, null) shape to
\* exactly {"y": null}.
C2_OptionalNullPruned ==
    Shaped =>
        /\ \A i \in 1..Len(fields) :
              (fields[i][3] /\ is_null(fields[i][2])) => fields[i][1] \notin DOMAIN result
        /\ fields = PruningExample => result = [k \in {"y"} |-> Null]

C2_Witness ==
    /\ pc = "filtered"
    /\ fields = PruningExample
    /\ DOMAIN result = {"y"}

\* what survives cleaning, stated without the cleaning function: an object has
\* content when some member is a non-null scalar, an array, or an object with
\* content
RECURSIVE HasContent(_)
HasContent(v) ==
    CASE v.t = "obj" -> \E k \in DOMAIN v.m : HasContent(v.m[k])
      [] v.t = "null" -> FALSE
      [] OTHER -> TRUE

\* no null member, no empty object and no null element anywhere inside v
RECURSIVE NoNullInside(_)
NoNullInside(v) ==
    CASE v.t = "obj" ->
            /\ DOMAIN v.m # {}
            /\ \A k \in DOMAIN v.m : ~is_null(v.m[k]) /\ NoNullInside(v.m[k])
      [] v.t = "arr" ->
            \A i \in 1..Len(v.a) : ~is_null(v.a[i]) /\ NoNullInside(v.a[i])
      [] OTHER -> TRUE

\* C3: an object-valued field is kept exactly when the object has content
\* after recursive cleaning, whatever its optional flag; the kept value is the
\* object with every null member and every emptied object removed.
C3_EmptyObjectDropped ==
    Shaped =>
        \A i \in 1..Len(fields) :
            fields[i][2].t = "obj" =>
                /\ fields[i][1] \in DOMAIN result <=> HasContent(fields[i][2])
                /\ fields[i][1] \in DOMAIN result =>
                      /\ result[fields[i][1]].t = "obj"
                      /\ NoNullInside(result[fields[i][1]])
                      /\ DOMAIN result[fields[i][1]].m =
                            {k \in DOMAIN fields[i][2].m : HasContent(fields[i][2].m[k])}

C3_Witness ==
    /\ pc = "filtered"
    /\ \E i \in 1..Len(fields) :
          /\ ~fields[i][3]
          /\ fields[i][2].t = "obj"
          /\ DOMAIN fields[i][2].m # {}
          /\ fields[i][1] \notin DOMAIN result
    /\ \E i \in 1..Len(fields) :
          /\ fields[i][2].t = "obj"
          /\ fields[i][1] \in DOMAIN result
          /\ DOMAIN result[fields[i][1]].m # DOMAIN fields[i][2].m

\* C4: an array-valued field is dropped exactly when it is optional and its
\* array is empty; a non-optional empty array stays as [], and a kept array
\* keeps one element per element of the input.
C4_EmptyArrayOnlyIfOptional ==
    Shaped =>
        \A i \in 1..Len(fields) :
            fields[i][2].t = "arr" =>
                /\ fields[i][1] \notin DOMAIN result
                      <=> (fields[i][3] /\ fields[i][2].a = <<>>)
                /\ fields[i][1] \in DOMAIN result =>
                      /\ result[fields[i][1]].t = "arr"
                      /\ Len(result[fields[i][1]].a) = Len(fields[i][2].a)

C4_Witness ==
    /\ pc = "filtered"
    /\ \E i, j \in 1..Len(fields) :
          /\ fields[i][2] = JArr(<<>>) /\ ~fields[i][3]
          /\ result[fields[i][1]] = JArr(<<>>)
          /\ fields[j][2] = JArr(<<>>) /\ fields[j][3]
          /\ fields[j][1] \notin DOMAIN result

\* C5: shaping is idempotent: filter_optional_fields applied to its own output
\* with the same optional flags returns that output, and
\* recursively_clean_object applied to its own output returns that output.
C5_ShapingIdempotent ==
    /\ pc \in {"refiltered", "cleaned", "recleaned"} => result2 = result
    /\ pc = "recleaned" => cleaned2 = cleaned

C5_Witness ==
    /\ pc = "recleaned"
    /\ result # EmptyMap
    /\ \E i \in 1..Len(fields) : fields[i][1] \notin DOMAIN result
    /\ cleaned # cleanIn
    /\ cleaned2 = cleaned

(***************************************************************************)
(* get_cached_regex with several callers.  REGEX_CACHE is an RwLock around *)
(* the map: lock holds the threads that have a read guard and those that   *)
(* have a write guard, cache the keys of the map.  A thread is at "read"   *)
(* (about to call REGEX_CACHE.read()), "get" (holds the read guard),       *)
(* "build" (guard dropped after a miss, compiling), "write" (about to call *)
(* REGEX_CACHE.write()), "insert" (holds the write guard) or "returned".   *)
(* No code runs under a guard that can panic, so the lock is never         *)
(* poisoned.                                                               *)
(***************************************************************************)
MaxCalls == 1

ThreadIds == {"t1", "t2", "t3"}

CachePatterns == {DigitsRe, BadRe}

\* RwLock::read returns as soon as no thread has the write guard
read_ready(lk) == lk.writers = {}

\* the write guard is given although a thread has a read guard
write_ready_AmongReaders(lk) == lk.writers = {}

\* RwLock::write returns as soon as no thread has any guard
write_ready(lk) == lk.readers = {} /\ lk.writers = {}

read(lk, t) == [lk EXCEPT !.readers = @ \cup {t}]
write(lk, t) == [lk EXCEPT !.writers = @ \cup {t}]

\* the read guard outlives the lookup block
drop_KeepReadGuard(lk, t) == [lk EXCEPT !.writers = @ \ {t}]

\* a guard going out of scope
drop(lk, t) == [lk EXCEPT !.readers = @ \ {t}, !.writers = @ \ {t}]

Idle == [at |-> "idle", pattern |-> NoneOpt, calls |-> 0, r |-> None]

InitCache ==
    /\ pc = "threads"
    /\ cache = {}
    /\ lock = [readers |-> {}, writers |-> {}]
    /\ threads = [t \in ThreadIds |-> Idle]
    /\ ShapeIdle /\ DomIdle /\ PipeIdle /\ FallbackIdle /\ ExtractIdle /\ SelectIdle /\ ParseIdle

OnlyLock ==
    UNCHANGED <<pc, shapeVars, domVars, pipeVars, fallbackVars, extractVars, selectVars, parseVars>>

\* a thread calls get_cached_regex(pattern)
Call(t) ==
    /\ threads[t].at \in {"idle", "returned"}
    /\ threads[t].calls < MaxCalls
    /\ \E p \in CachePatterns :
          threads' = [threads EXCEPT ![t] = [at |-> "read", pattern |-> Some(p),
                                             calls |-> @.calls + 1, r |-> None]]
    /\ UNCHANGED <<lock, cache>>
    /\ OnlyLock

\* let cache = REGEX_CACHE.read()
AcquireRead(t) ==
    /\ threads[t].at = "read"
    /\ read_ready(lock)
    /\ lock' = read(lock, t)
    /\ threads' = [threads EXCEPT ![t].at = "get"]
    /\ UNCHANGED cache
    /\ OnlyLock

\* cache.get(pattern): a hit returns the clone; the read guard is dropped
\* at the return or at the end of the block
Get(t) ==
    /\ threads[t].at = "get"
    /\ threads' = [threads EXCEPT ![t] =
                      IF @.pattern[1] \in cache
                      THEN [@ EXCEPT !.at = "returned", !.r = Ok(threads[t].pattern[1])]
                      ELSE [@ EXCEPT !.at = "build"]]
    /\ lock' = drop(lock, t)
    /\ UNCHANGED cache
    /\ OnlyLock

\* RegexBuilder::new(pattern)...build(): an error returns at once
Build(t) ==
    /\ threads[t].at = "build"
    /\ threads' = [threads EXCEPT ![t] =
                      IF @.pattern[1].ok
                      THEN [@ EXCEPT !.at = "write"]
                      ELSE [@ EXCEPT !.at = "returned", !.r = Err("Invalid or unsafe regex")]]
    /\ UNCHANGED <<lock, cache>>
    /\ OnlyLock

\* let mut cache = REGEX_CACHE.write()
AcquireWrite(t) ==
    /\ threads[t].at = "write"
    /\ write_ready(lock)
    /\ lock' = write(lock, t)
    /\ threads' = [threads EXCEPT ![t].at = "insert"]
    /\ UNCHANGED cache
    /\ OnlyLock

\* cache.insert(pattern.to_string(), re.clone()); Ok(re)
Insert(t) ==
    /\ threads[t].at = "insert"
    /\ cache' = cache \cup {threads[t].pattern[1]}
    /\ lock' = drop(lock, t)
    /\ threads' = [threads EXCEPT ![t] = [@ EXCEPT !.at = "returned",
                                                   !.r = Ok(threads[t].pattern[1])]]
    /\ OnlyLock

\* what a thread does inside a call
Running(t) == AcquireRead(t) \/ Get(t) \/ Build(t) \/ AcquireWrite(t) \/ Insert(t)

NextCache == \E t \in ThreadIds : Call(t) \/ Running(t)

SpecCache == InitCache /\ [][NextCache]_vars

\* a scheduler that lets every thread run, and a lock that serves every
\* thread that keeps asking: a thread whose next step is possible again and
\* again takes it
FairCache == \A t \in ThreadIds : SF_vars(Running(t))

SpecCacheFair == SpecCache /\ FairCache

(***************************************************************************)
(* Pipe claims (SpecPipe)                                                  *)
(***************************************************************************)
\* the text of the <a> element of the document of a pipe run
PipeText ==
    IF Len(doc) >= 3 /\ doc[3].kind = "text" /\ doc[3].parent = 2 THEN doc[3].txt ELSE <<>>

\* the steps of the fold taken so far: hist[k] is the input of transform
\* pipe k and hist[k + 1] its result
Steps ==
    IF pc \in {"pipes_fold", "pipes_done", "pipes_reordered"}
    THEN 1..(Len(hist) - 1) ELSE {}

\* C8 (as stated): every transform pipe that receives null returns null
\* without an error, so once a value is null every later transform of the
\* chain leaves it null.
C8_NullShortCircuit ==
    \A k \in Steps :
        (hist[k] = Ok(Null) /\ TransformsOf(pipeList)[k].c # "Attr")
            => hist[k + 1] = Ok(Null)

\* C9: the regex pipe on a string, with a pattern that compiles, returns
\* group 1 when it took part in the match, else the whole match; without a
\* match it returns null and no error.  On "Price: $25.00" the pattern
\* \$(\d+\.\d+) gives "25.00" and \d+ gives "25".
C9_RegexGroupOrWhole ==
    /\ \A k \in Steps :
          (/\ TransformsOf(pipeList)[k].c = "Regex"
           /\ TransformsOf(pipeList)[k].re.ok
           /\ hist[k].v.t = "str")
          => \E caps \in {captures(TransformsOf(pipeList)[k].re, hist[k].v.s)} :
                /\ hist[k + 1].ok
                /\ caps = NoneOpt => hist[k + 1].v = Null
                /\ (caps # NoneOpt /\ caps[1].g1 # NoneOpt)
                      => hist[k + 1].v = JStr(caps[1].g1[1])
                /\ (caps # NoneOpt /\ caps[1].g1 = NoneOpt)
                      => hist[k + 1].v = JStr(caps[1].whole)
    /\ (pc = "pipes_done" /\ PipeText = PriceText /\ pipeList = <<Regex(PriceRe)>>)
          => current = Ok(JStr(<<"2", "5", ".", "0", "0">>))
    /\ (pc = "pipes_done" /\ PipeText = PriceText /\ pipeList = <<Regex(DigitsRe)>>)
          => current = Ok(JStr(<<"2", "5">>))
    /\ (pc = "pipes_done" /\ PipeText = NoPriceText /\ pipeList = <<Regex(PriceRe)>>)
          => current = Ok(Null)

\* a regex step that returned its group 1, "25.00" out of "Price: $25.00"
C9_Witness ==
    /\ pc = "pipes_done"
    /\ PipeText = PriceText
    /\ pipeList = <<Regex(PriceRe)>>
    /\ hist = <<Ok(JStr(PriceText)), Ok(JStr(<<"2", "5", ".", "0", "0">>))>>

\* C10 (as stated): reordering the pipes of "trim | upper" on "  hi  "
\* changes the result.
C10_ReorderChangesResult ==
    (pc = "pipes_reordered" /\ PipeText = HiText /\ pipeList = <<Trim, Upper>>)
        => reordered.r # current

\* C10 (amended): transform pipes are applied left to right, each to the
\* previous pipe's output; "trim | upper" on "  hi  " yields "HI"; the order
\* can matter ("trim | substr:1" yields "i" and "substr:1 | trim" yields
\* "hi") but need not ("upper | trim" yields "HI" as well).
C10_LeftToRight ==
    /\ \A k \in Steps :
          hist[k + 1] = apply_pipe(hist[k].v, TransformsOf(pipeList)[k], {}).r
    /\ (pc \in {"pipes_done", "pipes_reordered"} /\ PipeText = HiText)
          => /\ pipeList = <<Trim, Upper>> => current = Ok(JStr(<<"H", "I">>))
             /\ pipeList = <<Trim, Substr(1, NoneOpt)>> => current = Ok(JStr(<<"i">>))
             /\ pipeList = <<Substr(1, NoneOpt), Trim>> => current = Ok(JStr(<<"h", "i">>))
    /\ (pc = "pipes_reordered" /\ PipeText = HiText)
          => /\ pipeList = <<Trim, Upper>> => reordered.r = current
             /\ pipeList = <<Trim, Substr(1, NoneOpt)>> => reordered.r # current

\* "trim | substr:1" on "  hi  " and its reordering give different strings
C10_Witness ==
    /\ pc = "pipes_reordered"
    /\ PipeText = HiText
    /\ pipeList = <<Trim, Substr(1, NoneOpt)>>
    /\ current = Ok(JStr(<<"i">>))
    /\ reordered = [pipes |-> <<Substr(1, NoneOpt), Trim>>, r |-> Ok(JStr(<<"h", "i">>))]

(***************************************************************************)
(* Fallback claims (SpecFallback)                                          *)
(***************************************************************************)
\* null, or a string of nothing but whitespace
Meaningless(v) ==
    v = Null \/ (v.t = "str" /\ \A i \in 1..Len(v.s) : IsSpace(v.s[i]))

\* the result of alternative k of the field on its own
AltResult(k) == TryAlternative(doc, alternatives[k], target, {}).r

FallbackDone == pc = "fallback_done"

\* C6: the alternatives are evaluated strictly left to right (the k-th one
\* evaluated is the k-th of the list); every one evaluated before the last
\* was rejected (null or all-whitespace); the field's value is the result
\* of the first alternative that is not rejected and no later alternative
\* is evaluated; when every alternative is rejected the value is null.
C6_FirstMeaningfulAlternative ==
    /\ pc \in {"fallback_loop", "fallback_done"}
          => /\ Len(tried) <= Len(alternatives)
             /\ \A k \in 1..Len(tried) : tried[k] = AltResult(k)
             /\ \A k \in 1..(Len(tried) - 1) : tried[k].ok /\ Meaningless(tried[k].v)
    /\ (FallbackDone /\ \A k \in 1..Len(tried) : tried[k].ok)
          => \/ /\ tried # <<>>
                /\ ~Meaningless(tried[Len(tried)].v)
                /\ current = tried[Len(tried)]
             \/ /\ Len(tried) = Len(alternatives)
                /\ \A k \in 1..Len(tried) : Meaningless(tried[k].v)
                /\ current = Ok(Null)

\* the first alternative gave whitespace, the second was accepted and the
\* third was never evaluated
C6_Witness ==
    /\ FallbackDone
    /\ Len(alternatives) = 3
    /\ Len(tried) = 2
    /\ tried[1] = Ok(JStr(<<" ">>))
    /\ current = Ok(JStr(<<"h">>))

\* C7 (as stated): a two-alternative field "a || b" has b's result whenever
\* a yields null or whitespace-only text, and a's result otherwise.
C7_SecondWheneverFirstRejected ==
    (FallbackDone /\ Len(alternatives) = 2 /\ AltResult(1).ok)
        => current = IF Meaningless(AltResult(1).v) THEN AltResult(2) ELSE AltResult(1)

\* C7 (amended): a two-alternative field "a || b" has a's result when that
\* is neither null nor whitespace-only (or is an error); otherwise b's
\* result when that is neither null nor whitespace-only (or is an error);
\* otherwise null, also when b yields whitespace-only text.
C7_TwoAlternatives ==
    (FallbackDone /\ Len(alternatives) = 2)
        => current =
              IF ~AltResult(1).ok \/ ~Meaningless(AltResult(1).v) THEN AltResult(1)
              ELSE IF ~AltResult(2).ok \/ ~Meaningless(AltResult(2).v) THEN AltResult(2)
              ELSE Ok(Null)

\* a was rejected and b gave whitespace-only text: the field is null
C7_Witness ==
    /\ FallbackDone
    /\ Len(alternatives) = 2
    /\ tried = <<Ok(Null), Ok(JStr(<<" ">>))>>
    /\ current = Ok(Null)

(***************************************************************************)
(* Extraction claims (SpecExtract)                                         *)
(***************************************************************************)
Extracted == pc = "extracted" /\ output.ok

ScalarField(f) == f.spec.f \in {"Selector", "FallbackSelector", "Literal"}

\* every non-optional scalar field of the object spec is a key of v, in v
\* and in every object below it
RECURSIVE KeepsNonOptional(_, _)
KeepsNonOptional(ospec, v) ==
    \A i \in 1..Len(ospec.fields) :
        \E f \in {ospec.fields[i]} :
            /\ (~f.optional /\ ScalarField(f)) => (v.t = "obj" /\ f.key \in DOMAIN v.m)
            /\ (f.spec.f = "Nested" /\ v.t = "obj" /\ f.key \in DOMAIN v.m)
                  => KeepsNonOptional(f.spec.obj, v.m[f.key])
            /\ (f.spec.f = "NestedArray" /\ v.t = "obj" /\ f.key \in DOMAIN v.m)
                  => \A j \in 1..Len(v.m[f.key].a) :
                        KeepsNonOptional(f.spec.arr.item_spec, v.m[f.key].a[j])

FieldValue(f, scope) == extract_field(doc, f.spec, scope, {}).r.v

\* the object built for ospec under a scope keeps each null non-optional
\* scalar field as a null member
KeepsNullAtTop(ospec, scope, v) ==
    /\ v.t = "obj"
    /\ \A i \in 1..Len(ospec.fields) :
          (/\ ~ospec.fields[i].optional
           /\ ScalarField(ospec.fields[i])
           /\ is_null(FieldValue(ospec.fields[i], scope)))
          => /\ ospec.fields[i].key \in DOMAIN v.m
             /\ v.m[ospec.fields[i].key] = Null

\* no object anywhere in v has a null member
RECURSIVE NoNullMember(_)
NoNullMember(v) ==
    CASE v.t = "obj" -> \A k \in DOMAIN v.m : ~is_null(v.m[k]) /\ NoNullMember(v.m[k])
      [] v.t = "arr" -> \A i \in 1..Len(v.a) : NoNullMember(v.a[i])
      [] OTHER -> TRUE

CleanBelow(v) == \A k \in DOMAIN v.m : NoNullMember(v.m[k])

RootScope == resolve_scope(doc, extractSpec.obj.scope_selector, NoneOpt).v
RootNodes ==
    query_selector_all(doc, EffectiveSelector(ItemSelector(extractSpec.arr))).v

Slice(s, from, to) == [i \in 1..(IF to > from THEN to - from ELSE 0) |-> s[from + i]]

\* C11: substr on a string never fails; its result is the characters after
\* the first start among the first end characters (among all of them without
\* an end), counted in characters, and it is empty when start >= end or
\* start >= the length.
C11_SubstrTakeThenSkip ==
    \A k \in Steps :
        (TransformsOf(pipeList)[k].c = "Substr" /\ hist[k].v.t = "str")
        => \E p \in {TransformsOf(pipeList)[k]} : \E s \in {hist[k].v.s} :
              /\ hist[k + 1] =
                    Ok(JStr(Slice(s, p.start,
                                  IF p.end = NoneOpt THEN Len(s) ELSE Min(p.end[1], Len(s)))))
              /\ (p.start >= Len(s) \/ (p.end # NoneOpt /\ p.start >= p.end[1]))
                    => hist[k + 1] = Ok(JStr(<<>>))

\* substr:1:2 of "hH" is "H": the end counts from the start of the string
C11_Witness ==
    /\ pc = "pipes_done"
    /\ pipeList = <<Substr(1, Some(2))>>
    /\ hist = <<Ok(JStr(<<"h", "H">>)), Ok(JStr(<<"H">>))>>

\* the result of field f of the root object on its own
FieldResult(f) == extract_field(doc, f.spec, RootScope, {}).r

Unmatched(f) ==
    f.spec.f = "Selector" /\ select_node(doc, f.spec.selector, RootScope) = Ok(NoneOpt)

\* C12: a Selector field of the root object whose selector resolves to no
\* node has the value null whatever its pipes are (null in the output, or no
\* key when the field is optional), raises no error and compiles no regex;
\* the call fails only if another field fails, and the other fields have
\* their own values in the output.
C12_UnmatchedSelectorIsNull ==
    (pc = "extracted" /\ extractSpec.s = "Object")
    => \E fs \in {extractSpec.obj.fields} :
       \A i \in 1..Len(fs) :
          Unmatched(fs[i])
          => /\ (\A j \in 1..Len(fs) : j # i => FieldResult(fs[j]).ok) => output.ok
             /\ output.ok
                  => /\ fs[i].optional => fs[i].key \notin DOMAIN output.v.m
                     /\ ~fs[i].optional => output.v.m[fs[i].key] = Null
                     /\ \A j \in 1..Len(fs) :
                           (ScalarField(fs[j]) /\ ~is_null(FieldResult(fs[j]).v))
                           => output.v.m[fs[j].key] = FieldResult(fs[j]).v
             /\ Len(fs) = 1 => cache = {}

\* "b | parseAs:int" finds no <b>: x is null and y still has the text of <a>
C12_Witness ==
    /\ pc = "extracted"
    /\ extractSpec = SpecObject(ObjectSpec(NoneOpt,
                        <<Field("x", Selector(<<"b">>, <<ParseAsInt>>), FALSE),
                          Field("y", Selector(<<"a">>, <<>>), FALSE)>>))
    /\ output = Ok(JObj([x |-> Null, y |-> JStr(<<"2">>)]))

\* the nodes an array spec's item selector matches under a scope, and the
\* item built for each of them from the field map alone
ItemNodes(arr, scope) ==
    (IF scope # NoneOpt
     THEN query_selector_all_relative(doc, scope[1], EffectiveSelector(ItemSelector(arr)))
     ELSE query_selector_all(doc, EffectiveSelector(ItemSelector(arr)))).v

ItemOf(arr, n) == extract_object_from_fields(doc, arr.item_spec.fields, Some(n), {}).r.v

Items(arr, scope) ==
    [j \in 1..Len(ItemNodes(arr, scope)) |-> ItemOf(arr, ItemNodes(arr, scope)[j])]

CleanedItems(arr, scope) ==
    [j \in 1..Len(ItemNodes(arr, scope)) |-> recursively_clean_object(Items(arr, scope)[j])]

NotSelfRefArray(f) ==
    f.spec.f = "NestedArray" /\ f.spec.arr.item_spec.scope_selector # Some(SelfRef)

\* every array of v that an array field of ospec produced has as many
\* elements as its item selector matches nodes under scope
RECURSIVE OnePerNode(_, _, _)
OnePerNode(ospec, scope, v) ==
    \A i \in 1..Len(ospec.fields) :
        \E f \in {ospec.fields[i]} :
            (v.t = "obj" /\ f.key \in DOMAIN v.m)
            => /\ NotSelfRefArray(f)
                    => Len(v.m[f.key].a) = Len(ItemNodes(f.spec.arr, scope))
               /\ f.spec.f = "Nested"
                    => OnePerNode(f.spec.obj,
                                  resolve_scope(doc, f.spec.obj.scope_selector, scope).v,
                                  v.m[f.key])

ArraysAtTop(ospec, scope, v) ==
    \A i \in 1..Len(ospec.fields) :
        \E f \in {ospec.fields[i]} :
            (NotSelfRefArray(f) /\ f.key \in DOMAIN v.m)
            => v.m[f.key] = JArr(CleanedItems(f.spec.arr, scope))

\* the arrays of the nested objects of the root object: one element per
\* matched node whose cleaned item is not null
ArraysBelow(ospec, scope, v) ==
    \A i \in 1..Len(ospec.fields) :
        \E f \in {ospec.fields[i]} :
            (f.spec.f = "Nested" /\ f.key \in DOMAIN v.m)
            => \E inner \in {resolve_scope(doc, f.spec.obj.scope_selector, scope).v} :
               \A k \in 1..Len(f.spec.obj.fields) :
                  \E g \in {f.spec.obj.fields[k]} :
                     (NotSelfRefArray(g) /\ g.key \in DOMAIN v.m[f.key].m)
                     => v.m[f.key].m[g.key] =
                           JArr(SelectSeq(CleanedItems(g.spec.arr, inner),
                                          LAMBDA e : ~is_null(e)))

SelfRefArray(f) ==
    f.spec.f = "NestedArray" /\ f.spec.arr.item_spec.scope_selector = Some(SelfRef)

\* the item object spec extracted directly against a scope
WrappedItem(arr, scope) == extract_object(doc, arr.item_spec, scope, {}).r

\* C14: an array spec whose item scope selector is literally $ yields a
\* one-element array whose element is the item object spec extracted
\* against the current scope, whatever that scope is (a node or none):
\* as the root spec, and as a field of the root object (where the element
\* is cleaned like every array element of a field).
C14_SelfRefArrayWrapsScope ==
    pc = "extracted" =>
        CASE extractSpec.s = "Array" /\ extractSpec.arr.item_spec.scope_selector = Some(SelfRef) ->
                WrappedItem(extractSpec.arr, NoneOpt).ok
                => output = Ok(JArr(<<WrappedItem(extractSpec.arr, NoneOpt).v>>))
          [] extractSpec.s = "Object" ->
                \E fs \in {extractSpec.obj.fields} :
                \A i \in 1..Len(fs) :
                   (/\ SelfRefArray(fs[i])
                    /\ WrappedItem(fs[i].spec.arr, RootScope).ok
                    /\ \A j \in 1..Len(fs) : j # i => FieldResult(fs[j]).ok)
                   => /\ output.ok
                      /\ output.v.m[fs[i].key] =
                            JArr(<<recursively_clean_object(
                                      WrappedItem(fs[i].spec.arr, RootScope).v)>>)
          [] OTHER -> TRUE

(***************************************************************************)
(* Selector resolution claims (SpecSelect)                                 *)
(***************************************************************************)
NodeSelected == pc = "node_selected"

NextSiblingForm == Len(selectorRef) >= 2 /\ selectorRef[1] = "+" /\ selectorRef[2] = " "

\* the selector text after the "+ " marker
InnerText == SubSeq(selectorRef, 3, Len(selectorRef))

\* the nodes below node s that match the selector text cs
MatchesBelow(s, cs) ==
    {n \in 1..Len(doc) : IsAncestor(doc, s, n) /\ CssMatches(doc, n, cs)}

\* the following sibling elements of the scope with a match below them
SiblingsWithMatch(cs) ==
    {s \in 1..Len(doc) :
        /\ s > target[1]
        /\ doc[s].parent = doc[target[1]].parent
        /\ IsElem(doc, s)
        /\ MatchesBelow(s, cs) # {}}

\* C15: a "+ " selector with no scope is the scope-required error; with a
\* scope (and a well-formed remainder) it resolves to the first node, in
\* document order, below the first following sibling element that has a
\* match below it, never to that sibling itself, and to no node when no
\* following sibling has one.
C15_NextSiblingFirstMatchInside ==
    (NodeSelected /\ NextSiblingForm)
    => IF target = NoneOpt
       THEN selected = Err("Next sibling selector requires a scope")
       ELSE CssWellFormed(InnerText)
            => \E sibs \in {SiblingsWithMatch(InnerText)} :
                  IF sibs = {} THEN selected = Ok(NoneOpt)
                  ELSE /\ selected = Ok(Some(Least(MatchesBelow(Least(sibs), InnerText))))
                       /\ selected.v[1] # Least(sibs)

\* "+ b" from the first <a> of <a/><b/><a><b/><b/></a><a><b/></a>: the
\* sibling <b> has no <b> below it, the next <a> has two, the first is taken
C15_Witness ==
    /\ NodeSelected
    /\ selectorRef = <<"+", " ", "b">>
    /\ target = Some(2)
    /\ Len(doc) = 8
    /\ selected = Ok(Some(5))

DirectChildForm == selectorRef # <<>> /\ selectorRef[1] = ">"

\* the nodes a selector text matches within a scope: below the scope node,
\* or anywhere in the document when there is no scope
MatchesWithin(scope, cs) ==
    {n \in 1..Len(doc) :
        (scope # NoneOpt => IsAncestor(doc, scope[1], n)) /\ CssMatches(doc, n, cs)}

LeastOf(ms) == IF ms = {} THEN NoneOpt ELSE Some(Least(ms))

\* what a plain selector text resolves to under the scope
PlainResult(sel) ==
    IF SelectorParse(sel) = NoneOpt THEN InvalidSelector(sel)
    ELSE Ok(LeastOf(MatchesWithin(target, SelectorParse(sel)[1])))

ScopeText(sel) == SelectorParse(IF sel[1] = ">" THEN Tail(sel) ELSE sel)[1]

\* the scope an object spec gives its fields: the incoming scope when it
\* has no scope selector or the selector $, else the first node its
\* selector (a leading > stripped) matches within the incoming scope, which
\* is no scope at all when nothing matches
EffectiveScope(ospec, incoming) ==
    IF ospec.scope_selector \in {NoneOpt, Some(SelfRef)} THEN incoming
    ELSE LeastOf(MatchesWithin(incoming, ScopeText(ospec.scope_selector[1])))

\* field f evaluated on its own against a scope
FieldAt(f, scope) == extract_field(doc, f.spec, scope, {}).r

\* object v shows val for key: as the member, or, when val is null, as a
\* null member or no member
Shown(v, key, val) ==
    IF is_null(val) THEN key \notin DOMAIN v.m \/ v.m[key] = Null
    ELSE key \in DOMAIN v.m /\ v.m[key] = val

\* every scalar field of ospec has in v the value it has against scope
ScalarsShown(ospec, scope, v) ==
    \A i \in 1..Len(ospec.fields) :
        \E f \in {ospec.fields[i]} :
            ScalarField(f) => FieldAt(f, scope).ok /\ Shown(v, f.key, FieldAt(f, scope).v)

\* every nested object of ospec evaluates its scalar fields against its own
\* effective scope under scope (it is dropped when they are all null)
NestedShown(ospec, scope, v) ==
    \A i \in 1..Len(ospec.fields) :
        \E f \in {ospec.fields[i]} :
            f.spec.f = "Nested"
            => \E inner \in {EffectiveScope(f.spec.obj, scope)} :
                  IF f.key \in DOMAIN v.m
                  THEN ScalarsShown(f.spec.obj, inner, v.m[f.key])
                  ELSE \A k \in 1..Len(f.spec.obj.fields) :
                          ScalarField(f.spec.obj.fields[k])
                          => FieldAt(f.spec.obj.fields[k], inner) = Ok(Null)

\* every array field of ospec takes scope as its incoming scope: one element
\* per node its item selector matches within scope, or, for the item
\* selector $ under a scope node, one element evaluated against that node
ArraysInherit(ospec, scope, v) ==
    \A i \in 1..Len(ospec.fields) :
        \E f \in {ospec.fields[i]} :
            (f.spec.f = "NestedArray" /\ f.key \in DOMAIN v.m)
            => IF SelfRefArray(f)
               THEN scope # NoneOpt
                    => /\ Len(v.m[f.key].a) = 1
                       /\ v.m[f.key].a[1].t = "obj"
                             => ScalarsShown(f.spec.arr.item_spec, scope, v.m[f.key].a[1])
               ELSE Len(v.m[f.key].a) =
                       Cardinality(MatchesWithin(scope, ScopeText(ItemSelector(f.spec.arr))))

ScopeHandedDown(ospec, scope, v) ==
    /\ ScalarsShown(ospec, scope, v)
    /\ NestedShown(ospec, scope, v)
    /\ ArraysInherit(ospec, scope, v)

\* C17: an object spec with no scope selector, or the scope selector $,
\* evaluates every field against its incoming scope; one with a scope
\* selector evaluates every field against the node the selector resolves to
\* within the incoming scope (against no scope when it resolves to no
\* node); nested objects and arrays take that effective scope as their
\* incoming scope.  Checked on the root object (incoming scope: none) and
\* on every item of a root array (incoming scope: the item's node).
C17_FieldsUseEffectiveScope ==
    Extracted =>
        CASE extractSpec.s = "Object" ->
                ScopeHandedDown(extractSpec.obj, EffectiveScope(extractSpec.obj, NoneOpt),
                                output.v)
          [] extractSpec.s = "Array" /\ extractSpec.arr.item_spec.scope_selector # Some(SelfRef) ->
                \A j \in 1..Len(output.v.a) :
                    ScopeHandedDown([extractSpec.arr.item_spec EXCEPT !.scope_selector = NoneOpt],
                                    Some(RootNodes[j]), output.v.a[j])
          [] OTHER -> TRUE

\* {"$": "a", "x": {"$": "b", "u": "$"}} on <a><b>h</b></a>: u is the text
\* of the <b> below the <a>
C17_Witness ==
    /\ Extracted
    /\ extractSpec = SpecObject(ObjectSpec(Some(<<"a">>),
          <<Field("x", Nested(ObjectSpec(Some(<<"b">>),
                                         <<Field("u", Selector(<<"$">>, <<>>), FALSE)>>)),
                   FALSE)>>))
    /\ output.v = JObj([x |-> JObj([u |-> JStr(<<"h">>)])])

\* the error of the first field of ospec, in evaluation order, that fails
\* against scope, if any
SomeFieldFails(ospec, scope) ==
    \E bad \in {{i \in 1..Len(ospec.fields) : ~FieldAt(ospec.fields[i], scope).ok}} :
        bad # {}

FailureOf(ospec, scope) ==
    FieldAt(ospec.fields[Least({i \in 1..Len(ospec.fields) :
                                   ~FieldAt(ospec.fields[i], scope).ok})], scope)

\* a result is the first failure of the object's fields, or a value when
\* none of them fails
AllOrError(res, ospec, scope) ==
    IF SomeFieldFails(ospec, scope) THEN res = FailureOf(ospec, scope) ELSE res.ok

\* the same for the items of an array over nodes, in document order
ItemsAllOrError(res, ospec, nodes) ==
    \E bad \in {{j \in 1..Len(nodes) : SomeFieldFails(ospec, Some(nodes[j]))}} :
        IF bad # {} THEN res = FailureOf(ospec, Some(nodes[Least(bad)])) ELSE res.ok

\* a scope selector with its leading > stripped, as text
StrippedText(sel) == IF sel # <<>> /\ sel[1] = ">" THEN trim(Tail(sel)) ELSE sel

\* the scope selector of an object spec is no CSS selector
ScopeInvalid(ospec) ==
    /\ ospec.scope_selector \notin {NoneOpt, Some(SelfRef)}
    /\ SelectorParse(StrippedText(ospec.scope_selector[1])) = NoneOpt

ItemSelectorInvalid(arr) == SelectorParse(EffectiveSelector(ItemSelector(arr))) = NoneOpt

\* a nested object or array field of ospec fails exactly with the error of
\* its own scope or item selector, or else with the first failure below it
BelowAllOrError(ospec, scope) ==
    \A i \in 1..Len(ospec.fields) :
        \E f \in {ospec.fields[i]} :
            /\ f.spec.f = "Nested"
                 => IF ScopeInvalid(f.spec.obj)
                    THEN FieldAt(f, scope) =
                            InvalidSelector(StrippedText(f.spec.obj.scope_selector[1]))
                    ELSE AllOrError(FieldAt(f, scope), f.spec.obj,
                                    EffectiveScope(f.spec.obj, scope))
            /\ NotSelfRefArray(f)
                 => IF ItemSelectorInvalid(f.spec.arr)
                    THEN FieldAt(f, scope) =
                            InvalidSelector(EffectiveSelector(ItemSelector(f.spec.arr)))
                    ELSE ItemsAllOrError(FieldAt(f, scope), f.spec.arr.item_spec,
                                         ItemNodes(f.spec.arr, scope))

\* C18: extract returns a value only if no evaluated field fails, and
\* otherwise exactly the error of the first field that fails, at the root
\* and below it (a nested object, an item of an array): a failing field is
\* never skipped or replaced by null in a returned value.
C18_FirstErrorAbortsExtract ==
    pc = "extracted" =>
        CASE extractSpec.s = "Object" ->
                \E eff \in {EffectiveScope(extractSpec.obj, NoneOpt)} :
                   /\ AllOrError(output, extractSpec.obj, eff)
                   /\ BelowAllOrError(extractSpec.obj, eff)
          [] extractSpec.s = "Array" /\ extractSpec.arr.item_spec.scope_selector # Some(SelfRef) ->
                /\ ItemsAllOrError(output, extractSpec.arr.item_spec, RootNodes)
                /\ \A j \in 1..Len(RootNodes) :
                      BelowAllOrError(extractSpec.arr.item_spec, Some(RootNodes[j]))
          [] OTHER -> TRUE

\* {"x": {"u": "b | parseAs:int"}, "y": "a"} on <a> </a><b>h</b>: the text of
\* <b> is no integer and the call returns that error, not {"y": " "}
C18_Witness ==
    /\ pc = "extracted"
    /\ extractSpec = SpecObject(ObjectSpec(NoneOpt,
          <<Field("x", Nested(ObjectSpec(NoneOpt,
                                 <<Field("u", Selector(<<"b">>, <<ParseAsInt>>), FALSE)>>)), FALSE),
            Field("y", Selector(<<"a">>, <<>>), FALSE)>>))
    /\ Len(doc) = 5
    /\ output = Err("Cannot parse as int")

(***************************************************************************)
(* Parser claims (SpecParse)                                               *)
(***************************************************************************)
Parsed == pc = "parsed"

\* C19: Spec::from_json returns a Spec or a parse error for every JSON
\* value, whatever the strings in it are: it never panics.
C19_ParsingNeverPanics == Parsed => ~IsPanic(parseOut)

IsSource(p) == p.c \in {"Attr", "Void"}

\* a source pipe is nowhere but in the first place of the list
SourceOnlyFirst(ps) == \A i \in 2..Len(ps) : ~IsSource(ps[i])

RECURSIVE PipeListsOf(_)
\* the pipe lists of an object spec and of the objects below it
FieldPipeLists(f) ==
    CASE f.spec.f = "Selector" -> {f.spec.pipes}
      [] f.spec.f = "FallbackSelector" ->
            {f.spec.selectors[i][2] : i \in 1..Len(f.spec.selectors)}
      [] f.spec.f = "Nested" -> PipeListsOf(f.spec.obj)
      [] f.spec.f = "NestedArray" -> PipeListsOf(f.spec.arr.item_spec)
      [] OTHER -> {}

PipeListsOf(ospec) ==
    UNION {FieldPipeLists(ospec.fields[i]) : i \in 1..Len(ospec.fields)}

ParsedPipeLists ==
    IF parseOut.v.s = "Array" THEN PipeListsOf(parseOut.v.arr.item_spec)
    ELSE PipeListsOf(parseOut.v.obj)

\* C20: every pipe list of a successfully parsed spec has at most one
\* source pipe (Attr or Void), in the first place: a selector string with a
\* source pipe after another pipe is a parse error, not a Spec.
C20_SourcePipeOnlyFirst ==
    (Parsed /\ parseOut.ok) => \A ps \in ParsedPipeLists : SourceOnlyFirst(ps)

\* the spec {"x": s} and the Spec with the one field x
OneField(s) == SObj(<<<<<<"x">>, JStr(s)>>>>)
OneFieldSpec(fs) == Ok(SpecObject(ObjectSpec(NoneOpt, <<Field("x", fs, FALSE)>>)))

\* C21 (as stated): for every pattern text P the selector string
\* "a | regex:P" parses to the one pipe Regex(P), P verbatim.
C21_RegexPatternVerbatim ==
    Parsed =>
        \A P \in Patterns :
            specJson = OneField(RegexString(P))
            => parseOut = OneFieldSpec(Selector(<<"a">>, <<Regex(P)>>))

\* a pattern text the splitting on "|" and the trimming of the parts leave
\* whole: no "|" in it and no whitespace at its end
WholePattern(P) == Find(P, "|") = 0 /\ TrimEnd(P) = P

\* C21 (amended): for every pattern text P that contains no "|" and does
\* not end in whitespace, "a | regex:P" parses to the one pipe Regex(P), P
\* verbatim (whitespace at its start included), and "a | regex:P | trim" to
\* Regex(P) followed by Trim.
C21_RegexPatternOfPart ==
    Parsed =>
        \A P \in Patterns :
            WholePattern(P)
            => /\ specJson = OneField(RegexString(P))
                    => parseOut = OneFieldSpec(Selector(<<"a">>, <<Regex(P)>>))
               /\ specJson = OneField(RegexString(P) \o <<" ", "|", " ", "trim">>)
                    => parseOut = OneFieldSpec(Selector(<<"a">>, <<Regex(P), Trim>>))

\* "a | regex: h" keeps the space before h in the pattern
C21_Witness ==
    /\ Parsed
    /\ specJson = OneField(RegexString(<<" ", "h">>))
    /\ parseOut = OneFieldSpec(Selector(<<"a">>, <<Regex(<<" ", "h">>)>>))

\* a field selector text that is no CSS selector once its form marker, "+ "
\* or ">", is taken off
FieldSelectorInvalid(sel) ==
    /\ sel # SelfRef
    /\ SelectorParse(IF Len(sel) >= 2 /\ sel[1] = "+" /\ sel[2] = " "
                     THEN SubSeq(sel, 3, Len(sel))
                     ELSE StrippedText(sel)) = NoneOpt

RECURSIVE InvalidSelectorsOf(_)
\* the raw texts of the invalid selectors of a field
InvalidOfField(f) ==
    CASE f.spec.f = "Selector" ->
            IF FieldSelectorInvalid(f.spec.selector) THEN {f.spec.selector} ELSE {}
      [] f.spec.f = "FallbackSelector" ->
            {f.spec.selectors[i][1] : i \in {k \in 1..Len(f.spec.selectors) :
                                               FieldSelectorInvalid(f.spec.selectors[k][1])}}
      [] f.spec.f = "Nested" -> InvalidSelectorsOf(f.spec.obj)
      [] f.spec.f = "NestedArray" -> InvalidSelectorsOf(f.spec.arr.item_spec)
      [] OTHER -> {}

\* the raw texts of the invalid selectors of an object spec (of an item
\* spec), its own scope (item) selector included
InvalidSelectorsOf(ospec) ==
    (IF ScopeInvalid(ospec) THEN {ospec.scope_selector[1]} ELSE {})
    \cup UNION {InvalidOfField(ospec.fields[i]) : i \in 1..Len(ospec.fields)}

InvalidSelectors ==
    CASE extractSpec.s = "Object" -> InvalidSelectorsOf(extractSpec.obj)
      [] extractSpec.s = "Array" -> InvalidSelectorsOf(extractSpec.arr.item_spec)
      [] OTHER -> {}

\* C22: extract with a spec that contains a syntactically invalid selector
\* (object scope, array item selector, field selector, fallback
\* alternative) returns, on every document, the invalid-selector error
\* carrying the raw text of such a selector.
C22_InvalidSelectorAlwaysReported ==
    (pc = "extracted" /\ InvalidSelectors # {})
    => \E sel \in InvalidSelectors : output = InvalidSelector(sel)

\* an empty document under a root object without a scope selector
EmptyDocument ==
    /\ pc = "extracted"
    /\ doc = <<HtmlRoot>>
    /\ extractSpec.s = "Object"
    /\ extractSpec.obj.scope_selector = NoneOpt

SelectorField(f) == f.spec.f \in {"Selector", "FallbackSelector"}

SiblingForm(sel) == Len(sel) >= 2 /\ sel[1] = "+" /\ sel[2] = " "

\* a field of the root object that fails without a scope on a document
\* where no selector matches: a "+ " selector, an invalid selector (also as
\* a fallback alternative), an array whose item selector is $ or invalid
FailsUnscoped(f) ==
    CASE f.spec.f = "Selector" ->
            SiblingForm(f.spec.selector) \/ FieldSelectorInvalid(f.spec.selector)
      [] f.spec.f = "FallbackSelector" ->
            \E k \in 1..Len(f.spec.selectors) :
                \/ SiblingForm(f.spec.selectors[k][1])
                \/ FieldSelectorInvalid(f.spec.selectors[k][1])
      [] f.spec.f = "NestedArray" ->
            \/ f.spec.arr.item_spec.scope_selector = Some(SelfRef)
            \/ ItemSelectorInvalid(f.spec.arr)
      [] OTHER -> FALSE

C24_DefaultSourceIsOwnText ==
    (pc # "pipes_start" /\ target # NoneOpt /\ SourceOf(pipeList) = NoneOpt)
    => hist[1] = Ok(JStr(TextFrom(doc, target[1], 1)))

(***************************************************************************)
(* Regex cache claims (SpecCache, SpecCacheFair)                           *)
(***************************************************************************)
\* the guards held are compatible: one writer and nobody else, or readers
GuardsCompatible ==
    /\ Cardinality(lock.writers) <= 1
    /\ lock.writers # {} => lock.readers = {}

\* a thread looking up holds a read guard only, a thread inserting holds the
\* write guard, and no other thread position holds a guard
GuardOfPosition ==
    \A t \in ThreadIds :
        /\ t \in lock.readers <=> threads[t].at = "get"
        /\ t \in lock.writers <=> threads[t].at = "insert"

\* a thread asking for the read guard gets it whoever else is reading
ReadersDoNotBlock ==
    \A t \in ThreadIds :
        (threads[t].at = "read" /\ lock.writers = {}) => ENABLED AcquireRead(t)

\* a lookup that finds its pattern returns from under the read guard, and
\* the map changes only in a step of the thread that has the write guard
HitReadsOnly ==
    /\ \A t \in ThreadIds :
          (threads[t].at = "get" /\ threads[t].pattern[1] \in cache /\ threads'[t] # threads[t])
          => threads'[t].at = "returned" /\ threads'[t].r = Ok(threads[t].pattern[1])
    /\ cache' # cache => \E t \in ThreadIds : lock.writers = {t} /\ threads[t].at = "insert"

C26_EntriesWrittenOnce ==
    /\ [][\A p \in cache :
            /\ p \in cache'
            /\ ~\E t \in ThreadIds :
                  /\ threads[t].at = "insert" /\ threads'[t].at = "returned"
                  /\ threads[t].pattern = Some(p)]_vars
    /\ [](\A p \in cache : p.ok)

InCall(t) == threads[t].at \notin {"idle", "returned"}

\* the call of thread t has returned the compiled regex of its pattern, or
\* the compilation error
Returned(t) ==
    /\ threads[t].at = "returned"
    /\ threads[t].r = IF threads[t].pattern[1].ok THEN Ok(threads[t].pattern[1])
                      ELSE Err("Invalid or unsafe regex")

\* C29: no thread asks for the write guard while it holds a read guard, so
\* as long as a call is running some thread can take a step, and under a
\* fair scheduler and a fair lock every call returns: the compiled regex, or
\* the compilation error.
C29_EveryCallReturns ==
    /\ [](\A t \in ThreadIds : threads[t].at \in {"write", "insert"} => t \notin lock.readers)
    /\ []((\E t \in ThreadIds : InCall(t)) => \E u \in ThreadIds : ENABLED Running(u))
    /\ \A t \in ThreadIds : InCall(t) ~> Returned(t)

\* all three calls have returned: two of the same pattern, which both got
\* the regex, and one of a pattern that does not compile
C29_Witness ==
    /\ Returned("t1") /\ Returned("t2") /\ Returned("t3")
    /\ threads["t1"].r = Ok(DigitsRe)
    /\ threads["t2"].r = Ok(DigitsRe)
    /\ threads["t3"].r = Err("Invalid or unsafe regex")
    /\ cache = {DigitsRe}

(***************************************************************************)
(* Scope containment, array elements, determinism (SpecExtract)            *)
(***************************************************************************)
\* the scope selector of the root object is a selector that matches no
\* element of the document
RootScopeUnmatched ==
    /\ extractSpec.s = "Object"
    /\ extractSpec.obj.scope_selector \notin {NoneOpt, Some(SelfRef)}
    /\ ~ScopeInvalid(extractSpec.obj)
    /\ SelectAll(doc, SelectorParse(StrippedText(extractSpec.obj.scope_selector[1]))[1]) = <<>>

PlainOrDirectChild(f) ==
    /\ f.spec.f = "Selector"
    /\ f.spec.selector # SelfRef
    /\ ~SiblingForm(f.spec.selector)

\* C27: when the scope selector of an object matches no element, the
\* object's plain and direct-child selector fields are null (or pruned): no
\* field resolves to a node outside the scope by querying the whole
\* document.
C27_UnmatchedScopeYieldsNull ==
    (pc = "extracted" /\ RootScopeUnmatched /\ output.ok)
    => \A i \in 1..Len(extractSpec.obj.fields) :
          \E f \in {extractSpec.obj.fields[i]} :
             PlainOrDirectChild(f)
             => f.key \notin DOMAIN output.v.m \/ output.v.m[f.key] = Null

RECURSIVE ElementsAreObjects(_)
\* every element of every array inside v is an object
ElementsAreObjects(v) ==
    CASE v.t = "arr" ->
            \A j \in 1..Len(v.a) : v.a[j].t = "obj" /\ ElementsAreObjects(v.a[j])
      [] v.t = "obj" -> \A k \in DOMAIN v.m : ElementsAreObjects(v.m[k])
      [] OTHER -> TRUE

\* C28: every element of every array of the extraction output is a JSON
\* object, never null, whatever the values of the item's fields are and
\* wherever the array spec sits.
C28_ArrayElementsAreObjects ==
    (pc = "extracted" /\ output.ok) => ElementsAreObjects(output.v)

Reverse(s) == [i \in 1..Len(s) |-> s[Len(s) + 1 - i]]

RECURSIVE ReorderedObject(_, _, _)
\* the field spec with the fields of the objects below it reversed or not
ReorderedField(fspec, inner) ==
    CASE fspec.f = "Nested" -> Nested(ReorderedObject(fspec.obj, inner, inner))
      [] fspec.f = "NestedArray" ->
            NestedArray(ArraySpec(ReorderedObject(fspec.arr.item_spec, inner, inner)))
      [] OTHER -> fspec

ReorderedFields(fs, inner) ==
    [i \in 1..Len(fs) |-> [fs[i] EXCEPT !.spec = ReorderedField(@, inner)]]

\* the object spec with its fields iterated in another order: the fields of
\* the object itself reversed or not (here), those of the objects below it
\* reversed or not (inner)
ReorderedObject(ospec, here, inner) ==
    [ospec EXCEPT !.fields = IF here THEN Reverse(ReorderedFields(@, inner))
                             ELSE ReorderedFields(@, inner)]

ReorderedSpec(spec, here, inner) ==
    CASE spec.s = "Object" -> SpecObject(ReorderedObject(spec.obj, here, inner))
      [] spec.s = "Array" ->
            SpecArray(ArraySpec(ReorderedObject(spec.arr.item_spec, here, inner)))
      [] OTHER -> spec

\* both fail, or both succeed with the same JSON value
SameOutcome(a, b) == a.ok = b.ok /\ (a.ok => a.v = b.v)

\* the regex caches a call can find: any set of compiled patterns
PriorCaches == {{}, {DigitsRe, PriceRe}}

\* C30: for the same spec and document, whether extract fails, and the JSON
\* value it returns when it succeeds, are the same for every order in which
\* the fields of the objects are iterated and for every prior content of
\* the regex cache.
C30_ExtractDeterministic ==
    pc = "extracted"
    => \A here \in BOOLEAN, inner \in BOOLEAN, ch \in PriorCaches :
          SameOutcome(output, extract(doc, ReorderedSpec(extractSpec, here, inner), ch).r)

\* {"x": "b | regex:\d+", "y": "a"} on <a href=h>2</a><b> </b>: the regex
\* was compiled by the call, x is null and y is "2"
C30_Witness ==
    /\ pc = "extracted"
    /\ extractSpec = SpecObject(ObjectSpec(NoneOpt,
                        <<Field("x", Selector(<<"b">>, <<Regex(DigitsRe)>>), FALSE),
                          Field("y", Selector(<<"a">>, <<>>), FALSE)>>))
    /\ cache = {DigitsRe}
    /\ output = Ok(JObj([k \in {"x", "y"} |-> IF k = "x" THEN Null ELSE JStr(<<"2">>)]))

====
